---- MODULE Spec2Model ----
(***************************************************************************)
(* The essay service of sentient-soup/disregarded: the token middleware,   *)
(* the essay handlers of src/api/essays.ts and the prepared statements of  *)
(* src/db/index.ts, as a state machine.                                    *)
(*                                                                         *)
(* src/db/index.ts holds two generations of the schema one after the other *)
(* (short_id, lines 1-130; integer id, lines 132-223).  src/api/essays.ts  *)
(* addresses essays by parseInt(req.params.id) and calls create with       *)
(* (user_id, title, content): the integer-id statements (lines 200-223)    *)
(* are the ones it runs, and the ones modelled here.                       *)
(*                                                                         *)
(* A handler runs without interruption between two awaits (one JavaScript  *)
(* thread).  The only await that separates a read of the store from a      *)
(* write is `await req.json()` in updateEssay, so updateEssay is two       *)
(* actions and every other essay handler is one.                           *)
(*                                                                         *)
(* Spec is the essay service under requests of two accounts; SpecContent   *)
(* is one account's creates and updates with bodies on both sides of each  *)
(* validation; SpecToken is the token service, the browser's token and a   *)
(* clock that reaches a token's expiry; SpecAuth is the start of the       *)
(* process, registration and login; SpecShortId is the loop of             *)
(* generateUniqueShortId.                                                  *)
(***************************************************************************)
EXTENDS Integers, Sequences, FiniteSets, Bags, TLC

VARIABLES users, essays, seq, now, pending, response, issued, localStorage,
          process, generator, terminal, authState

vars == <<users, essays, seq, now, pending, response, issued, localStorage, process, generator,
         terminal, authState>>

(***************************************************************************)
(* Bounds of the model.                                                    *)
(***************************************************************************)
\* rows the essays table's AUTOINCREMENT counter may hand out
MaxEssays == 2
\* seconds the clock may advance
MaxTime == 1
\* tokens the logins of SpecToken issue
MaxTokens == 2

\* updateEssay calls that may be suspended at `await req.json()` at once
MaxInflight == 1

(***************************************************************************)
(* Configuration read from the environment at module load.                 *)
(***************************************************************************)
MAX_ESSAY_LENGTH == 500000
JWT_EXPIRY == 86400

\* process.env as the modules read it: an unset variable and an empty one are
\* both "", which is all `!JWT_SECRET` and `!== "false"` tell apart
Env(secret, registration) ==
    [JWT_SECRET |-> secret, REGISTRATION_ENABLED |-> registration]

\* a deployment as the README sets it up: a secret, registration left open
Configured == Env("server-secret", "")

\* the process once its modules are loaded and Bun.serve listens
Serving(env) == [status |-> "serving", env |-> env]

JWT_SECRET == process.env.JWT_SECRET
REGISTRATION_ENABLED == process.env.REGISTRATION_ENABLED # "false"

\* Strings whose length or characters the code looks at are sequences of
\* one-character strings; these are the ones the model names.
alice == <<"a", "l", "i", "c", "e">>
bob == <<"b", "o", "b">>
carol == <<"c", "a", "r", "o", "l">>
secret1 == <<"s", "e", "c", "r", "e", "t", "1">>
secret2 == <<"s", "e", "c", "r", "e", "t", "2">>
Unknown == <<"U", "n", "k", "n", "o", "w", "n">>

\* JavaScript's undefined / null, and SQLite's "no row"
NULL == [null |-> TRUE]

\* an output line of the terminal: its fixed text and the value interpolated
\* into it (<<>> when none)
Line(content, value) == [content |-> content, value |-> value]

\* useTerminal's state as its useState calls create it; input is the
\* argument of the last call of handleCommand and awaiting the request it is
\* suspended at
useTerminal ==
    [lines |-> <<Line("Welcome to Disregarded.", <<>>),
                 Line("Type 'help' for available commands.", <<>>),
                 Line("", <<>>)>>,
     history |-> <<>>,
     isProcessing |-> FALSE,
     inputState |-> [mode |-> "command", tempData |-> [username |-> <<>>, id |-> <<>>]],
     input |-> <<>>,
     awaiting |-> NULL]

\* useAuth's state when nothing is persisted
useAuth == [user |-> NULL, token |-> NULL, isAuthenticated |-> FALSE]

(***************************************************************************)
(* Strings.  A title is a sequence of characters, so that trim() is        *)
(* computed; a content is never transformed, only measured and stored, and *)
(* is a text with its length.                                              *)
(***************************************************************************)
IsSpace(c) == c = " "

RECURSIVE trimStart(_)
trimStart(s) ==
    IF s = <<>> THEN <<>>
    ELSE IF IsSpace(Head(s)) THEN trimStart(Tail(s)) ELSE s

RECURSIVE trimEnd(_)
trimEnd(s) ==
    IF s = <<>> THEN <<>>
    ELSE IF IsSpace(s[Len(s)]) THEN trimEnd(SubSeq(s, 1, Len(s) - 1)) ELSE s

\* String.prototype.trim
trim(s) == trimEnd(trimStart(s))

Str(text, n) == [text |-> text, length |-> n]

Digits == <<"0", "1", "2", "3", "4", "5", "6", "7", "8", "9">>

IsDigit(c) == \E i \in 1..Len(Digits) : Digits[i] = c

DigitValue(c) == (CHOOSE i \in 1..Len(Digits) : Digits[i] = c) - 1

RECURSIVE parseDigits(_, _)
parseDigits(s, acc) ==
    IF s = <<>> \/ ~IsDigit(Head(s)) THEN acc
    ELSE parseDigits(Tail(s), acc * 10 + DigitValue(Head(s)))

\* parseInt(string): leading white space skipped, then the longest run of
\* digits; NaN (nan = TRUE) when there is none.
parseInt(s) ==
    LET t == trimStart(s)
    IN IF t = <<>> \/ ~IsDigit(Head(t))
       THEN [nan |-> TRUE, n |-> 0]
       ELSE [nan |-> FALSE, n |-> parseDigits(t, 0)]

(***************************************************************************)
(* lib/jwt.  A token string is the list of its dot-separated segments.     *)
(* A segment is a text: the base64url text of a value, in one of the       *)
(* spellings atob decodes to the same bytes, or a text atob refuses        *)
(* (Garbage).  HMAC-SHA256 is an ideal MAC over texts: the tag of          *)
(* (key, data) is equal to another tag only when key and data are.         *)
(***************************************************************************)
\* The spellings of one byte string that base64UrlToUint8Array accepts:
\* the one uint8ArrayToBase64Url writes; the same followed by "="; the same
\* with the unused low bits of its last character set.
Spellings == {"url", "padded", "spare bits"}

\* uint8ArrayToBase64Url(stringToUint8Array(JSON.stringify(x)))
B64(x) == [b64 |-> TRUE, of |-> x, spelling |-> "url"]

\* another text of the same bytes
Respell(segment, spelling) == [segment EXCEPT !.spelling = spelling]

Garbage == [b64 |-> FALSE, of |-> NULL, spelling |-> "url"]

\* base64UrlToUint8Array: the bytes, whatever the spelling; atob throws on
\* Garbage
base64UrlToUint8Array(segment) ==
    IF segment.b64 THEN [threw |-> FALSE, bytes |-> segment.of]
    ELSE [threw |-> TRUE, bytes |-> NULL]

Hmac(key, data) == [key |-> key, data |-> data]

\* sign(data)
sign(data) == B64(Hmac(JWT_SECRET, data))

\* faulty variant: a signature atob refuses is taken as good
verifyLenient(data, signature) ==
    LET sig == base64UrlToUint8Array(signature)
    IN [threw |-> FALSE, ok |-> sig.threw \/ sig.bytes = Hmac(JWT_SECRET, data)]

\* verify(data, signature): atob throws on text that is not base64
verify(data, signature) ==
    LET sig == base64UrlToUint8Array(signature)
    IN IF sig.threw THEN [threw |-> TRUE, ok |-> FALSE]
       ELSE [threw |-> FALSE, ok |-> sig.bytes = Hmac(JWT_SECRET, data)]

JWTHeader == [alg |-> "HS256", typ |-> "JWT"]

\* the claims of a token issued when the clock reads t
Claims(userId, username, t) ==
    [userId |-> userId, username |-> username, iat |-> t, exp |-> t + JWT_EXPIRY]

\* bytes JSON.parse throws on
NotJson == [json |-> FALSE]

\* faulty variant: every token is made out to the first account
createTokenForFirstAccount(userId, username, t) ==
    LET payload == Claims(1, username, t)
        dataToSign == <<B64(JWTHeader), B64(payload)>>
    IN dataToSign \o <<sign(dataToSign)>>

\* createToken(userId, username) called when the clock reads t
createToken(userId, username, t) ==
    LET payload == Claims(userId, username, t)
        dataToSign == <<B64(JWTHeader), B64(payload)>>
    IN dataToSign \o <<sign(dataToSign)>>

\* faulty variant: no token ever expires
expiredNever(payload, t) == FALSE

\* payload.exp < now
expired(payload, t) == payload.exp < t

\* faulty variant: a token is refused once a later login of its account has
\* issued another
verifyTokenUnlessSuperseded(token, t) ==
    IF Len(token) # 3 THEN NULL
    ELSE LET isValid == verify(<<token[1], token[2]>>, token[3])
             payload == base64UrlToUint8Array(token[2])
         IN IF isValid.threw \/ ~isValid.ok THEN NULL
            ELSE IF payload.threw \/ payload.bytes = NotJson THEN NULL
            ELSE IF expired(payload.bytes, t) THEN NULL
            ELSE IF \E other \in issued :
                       /\ other[2].of.userId = payload.bytes.userId
                       /\ other[2].of.iat > payload.bytes.iat
            THEN NULL
            ELSE payload.bytes

\* verifyToken(token) called when the clock reads t: the payload, or NULL.
\* Every throw inside it is caught and answered with null.
verifyToken(token, t) ==
    IF Len(token) # 3 THEN NULL
    ELSE LET dataToVerify == <<token[1], token[2]>>
             isValid == verify(dataToVerify, token[3])
             payload == base64UrlToUint8Array(token[2])
         IN IF isValid.threw \/ ~isValid.ok THEN NULL
            ELSE IF payload.threw \/ payload.bytes = NotJson THEN NULL
            ELSE IF expired(payload.bytes, t) THEN NULL
            ELSE payload.bytes

\* An Authorization header: NULL when the request has none, else the text
\* split after its first seven characters.
Header(prefix, rest) == [prefix |-> prefix, rest |-> rest]

\* extractToken(authHeader): the token, or <<>> for null (an empty token is
\* as falsy as null for both callers)
extractToken(authHeader) ==
    IF authHeader = NULL THEN <<>>
    ELSE IF authHeader.prefix # "Bearer " THEN <<>>
    ELSE authHeader.rest

(***************************************************************************)
(* api/middleware.  The identity a request carries into its handler.       *)
(***************************************************************************)
Anonymous == [authenticated |-> FALSE, userId |-> 0, username |-> <<>>]

Identity(payload) ==
    [authenticated |-> TRUE, userId |-> payload.userId, username |-> payload.username]

Json(code, body) == [code |-> code, body |-> body]

\* faulty variant: the handler is run without identity when the token is
\* missing or refused
requireAuthNeverRefuses(authHeader, t) ==
    LET token == extractToken(authHeader)
        payload == IF token = <<>> THEN NULL ELSE verifyToken(token, t)
    IN [pass |-> TRUE, res |-> NULL,
        req |-> IF payload = NULL THEN Anonymous ELSE Identity(payload)]

\* requireAuth: [pass |-> TRUE, req |-> identity] when the handler is to
\* run, else the 401 response
requireAuth(authHeader, t) ==
    LET token == extractToken(authHeader)
    IN IF token = <<>>
       THEN [pass |-> FALSE, req |-> Anonymous,
             res |-> Json(401, [error |-> "Authentication required"])]
       ELSE LET payload == verifyToken(token, t)
            IN IF payload = NULL
               THEN [pass |-> FALSE, req |-> Anonymous,
                     res |-> Json(401, [error |-> "Invalid or expired token"])]
               ELSE [pass |-> TRUE, req |-> Identity(payload), res |-> NULL]

\* faulty variant: the claims of a token are attached without verifying it
optionalAuthUnverified(authHeader, t) ==
    LET token == extractToken(authHeader)
    IN IF Len(token) = 3 /\ token[2].b64 /\ token[2].of # NotJson
       THEN Identity(token[2].of)
       ELSE Anonymous

\* optionalAuth: the identity the handler runs with
optionalAuth(authHeader, t) ==
    LET token == extractToken(authHeader)
    IN IF token = <<>> THEN Anonymous
       ELSE LET payload == verifyToken(token, t)
            IN IF payload = NULL THEN Anonymous ELSE Identity(payload)

(***************************************************************************)
(* db.  users and essays are the two tables, seq is the essays row of      *)
(* sqlite_sequence (AUTOINCREMENT never hands out an id twice), now is     *)
(* CURRENT_TIMESTAMP in seconds.                                           *)
(***************************************************************************)
\* userQueries.findById.get(id)
userFindById(id) ==
    IF \E u \in users : u.id = id THEN CHOOSE u \in users : u.id = id ELSE NULL

\* essayQueries.findById.get(id)
findById(id) ==
    IF \E e \in essays : e.id = id THEN CHOOSE e \in essays : e.id = id ELSE NULL

\* faulty variant: ORDER BY updated_at ASC
OrderByUpdatedAtAsc(rows) ==
    LET n == Cardinality(rows)
    IN {s \in [1..n -> rows] :
           /\ \A i, j \in 1..n : i # j => s[i] # s[j]
           /\ \A i, j \in 1..n : i < j => s[i].updated_at <= s[j].updated_at}

\* ORDER BY updated_at DESC: every order of the rows in which no row comes
\* before one updated later (SQL leaves the order of ties open)
OrderByUpdatedAtDesc(rows) ==
    LET n == Cardinality(rows)
    IN {s \in [1..n -> rows] :
           /\ \A i, j \in 1..n : i # j => s[i] # s[j]
           /\ \A i, j \in 1..n : i < j => s[i].updated_at >= s[j].updated_at}

\* WHERE user_id = ?
WhereUserId(user_id) == {e \in essays : e.user_id = user_id}

\* essayQueries.findByUserId.all(user_id)
findByUserId(user_id) == OrderByUpdatedAtDesc(WhereUserId(user_id))

\* faulty variant: no WHERE clause
WhereAnyStatus == essays

\* WHERE status = 'published'
WherePublished == {e \in essays : e.status = "published"}

\* essayQueries.findPublished.all()
findPublished == OrderByUpdatedAtDesc(WherePublished)

\* faulty variant: the new row's id bound where its owner belongs
createRowIdAsOwner(user_id, title, content) ==
    [id |-> seq + 1, user_id |-> seq + 1, title |-> title, content |-> content,
     status |-> "draft", updated_at |-> now]

\* essayQueries.create.get(user_id, title, content): the row INSERT returns
createRow(user_id, title, content) ==
    [id |-> seq + 1, user_id |-> user_id, title |-> title, content |-> content,
     status |-> "draft", updated_at |-> now]

\* WHERE id = ? AND user_id = ?
WhereIdAndUserId(e, id, user_id) == e.id = id /\ e.user_id = user_id

\* faulty variant: the UPDATE also sets status = 'draft'
updateTableResetsStatus(title, content, id, user_id) ==
    {IF e.id = id /\ e.user_id = user_id
        THEN [e EXCEPT !.title = title, !.content = content, !.status = "draft",
                       !.updated_at = now]
        ELSE e : e \in essays}

\* essayQueries.update.get(title, content, id, user_id): the table after it
updateTable(title, content, id, user_id) ==
    {IF WhereIdAndUserId(e, id, user_id)
        THEN [e EXCEPT !.title = title, !.content = content, !.updated_at = now]
        ELSE e : e \in essays}

\* faulty variant: the UPDATE flips the status instead of setting it
updateStatusToggles(status, id, user_id) ==
    {IF e.id = id /\ e.user_id = user_id
        THEN [e EXCEPT !.status = IF e.status = "draft" THEN "published" ELSE "draft",
                       !.updated_at = now]
        ELSE e : e \in essays}

\* essayQueries.updateStatus.get(status, id, user_id): the table after it
updateStatusTable(status, id, user_id) ==
    {IF WhereIdAndUserId(e, id, user_id)
        THEN [e EXCEPT !.status = status, !.updated_at = now]
        ELSE e : e \in essays}

\* essayQueries.delete.run(id, user_id): the table after it
deleteTable(id, user_id) == {e \in essays : ~WhereIdAndUserId(e, id, user_id)}

\* rows a WHERE id = ? AND user_id = ? statement touches
Changes(id, user_id) == Cardinality({e \in essays : WhereIdAndUserId(e, id, user_id)})

\* RETURNING * of an UPDATE: the row of `table` with this id, NULL when the
\* statement touched none
Returning(table, id, user_id) ==
    IF \E e \in table : WhereIdAndUserId(e, id, user_id)
    THEN CHOOSE e \in table : WhereIdAndUserId(e, id, user_id)
    ELSE NULL

(***************************************************************************)
(* api/essays.  response is the response the server is writing; it holds   *)
(* the handler, the identity the middleware attached, the parsed id, the   *)
(* request body it read (input), the row its ownership read returned       *)
(* (existing) and the number of rows its write touched (changes: <<n>>, or *)
(* <<>> when it ran no write).                                             *)
(***************************************************************************)
Resp(op, req, id, res, existing, changes) ==
    [op |-> op, req |-> req, id |-> id, input |-> NULL, code |-> res.code,
     body |-> res.body, existing |-> existing, changes |-> changes]

\* the same, of a handler that has read the request body `input`
RespTo(input, op, req, id, res, existing, changes) ==
    [Resp(op, req, id, res, existing, changes) EXCEPT !.input = input]

\* faulty variant: the catch answers with the exception's message
InternalServerErrorWithMessage ==
    Json(500, [error |-> "SQLiteError: UNIQUE constraint failed: users.username"])

InternalServerError == Json(500, [error |-> "Internal server error"])

\* faulty variant: the author looked up by the essay's id
WithAuthorById(essay) ==
    LET user == userFindById(essay.id)
    IN [author |-> IF user = NULL \/ user.username = <<>> THEN Unknown
                   ELSE user.username] @@ essay

\* { ...essay, author: user?.username || "Unknown" }
WithAuthor(essay) ==
    LET user == userFindById(essay.user_id)
    IN [author |-> IF user = NULL \/ user.username = <<>> THEN Unknown
                   ELSE user.username] @@ essay

Store == <<users, essays, seq, now, pending, issued, localStorage, process, generator, terminal, authState>>

\* requireAuth(handler) when the middleware does not pass: its 401
Unauthenticated(op, auth) ==
    /\ response' = Resp(op, auth.req, 0, auth.res, NULL, <<>>)
    /\ UNCHANGED Store

\* getPublishedEssays
GetPublishedEssays ==
    /\ \E list \in findPublished :
          response' = Resp("getPublishedEssays", Anonymous, 0,
                           Json(200, [essays |-> [i \in DOMAIN list |-> WithAuthor(list[i])]]),
                           NULL, <<>>)
    /\ UNCHANGED Store

\* getUserEssays
GetUserEssays(req) ==
    /\ \E list \in findByUserId(req.userId) :
          response' = Resp("getUserEssays", req, 0, Json(200, [essays |-> list]),
                           NULL, <<>>)
    /\ UNCHANGED Store

\* faulty variant: a draft is hidden from anonymous callers only
hiddenDraftFromAnonymous(essay, req) == essay.status = "draft" /\ ~req.authenticated

\* essay.status === "draft" && essay.user_id !== req.userId
hiddenDraft(essay, req) ==
    essay.status = "draft" /\ ~(req.authenticated /\ essay.user_id = req.userId)

\* the response of getEssay
getEssayResponse(req, param) ==
    LET id == parseInt(param)
        essay == findById(id.n)
    IN IF id.nan
       THEN Resp("getEssay", req, 0, Json(400, [error |-> "Invalid essay ID"]), NULL, <<>>)
       ELSE IF essay = NULL
       THEN Resp("getEssay", req, id.n, Json(404, [error |-> "Essay not found"]), NULL, <<>>)
       ELSE IF hiddenDraft(essay, req)
       THEN Resp("getEssay", req, id.n, Json(404, [error |-> "Essay not found"]), essay, <<>>)
       ELSE Resp("getEssay", req, id.n, Json(200, [essay |-> WithAuthor(essay)]), essay, <<>>)

\* getEssay
GetEssay(req, param) ==
    /\ response' = getEssayResponse(req, param)
    /\ UNCHANGED Store

(***************************************************************************)
(* Request bodies.  BadJson is a body req.json() throws on; a JSON object  *)
(* holds each field as <<value>>, or <<>> when the field is absent.        *)
(***************************************************************************)
BadJson == [json |-> FALSE]

Body(title, content) == [json |-> TRUE, title |-> title, content |-> content]

\* faulty variant: the ownership check is missing
notOwnerNever(existing, req) == FALSE

\* existing.user_id !== req.userId
notOwner(existing, req) == existing.user_id # req.userId

\* faulty variant: content of the maximum length is refused
exceedsMaximumOrEqual(content) == content.length >= MAX_ESSAY_LENGTH

\* content.length > MAX_ESSAY_LENGTH
exceedsMaximum(content) == content.length > MAX_ESSAY_LENGTH

\* the response of createEssay and the row it stores (NULL when none)
createEssayResult(req, body) ==
    IF ~body.json THEN [res |-> InternalServerError, row |-> NULL]
    ELSE IF body.title = <<>> \/ Len(body.title[1]) = 0 \/ Len(trim(body.title[1])) = 0
    THEN [res |-> Json(400, [error |-> "Title is required"]), row |-> NULL]
    ELSE IF body.content = <<>> \/ body.content[1].length = 0
    THEN [res |-> Json(400, [error |-> "Content is required"]), row |-> NULL]
    ELSE IF exceedsMaximum(body.content[1])
    THEN [res |-> Json(400, [error |-> "Essay content exceeds maximum length"]), row |-> NULL]
    ELSE LET essay == createRow(req.userId, trim(body.title[1]), body.content[1])
         IN [res |-> Json(201, [message |-> "Essay created", essay |-> essay]),
             row |-> essay]

\* createEssay
CreateEssay(req, body) ==
    LET r == createEssayResult(req, body)
    IN /\ response' = RespTo(body, "createEssay", req, 0, r.res, NULL,
                             IF r.row = NULL THEN <<>> ELSE <<1>>)
       /\ IF r.row = NULL
          THEN UNCHANGED <<essays, seq>>
          ELSE essays' = essays \cup {r.row} /\ seq' = seq + 1
       /\ UNCHANGED <<users, now, pending, issued, localStorage, process, generator, terminal, authState>>

\* the answer of a handler that stops at its ownership check
Refuse(op, req, id, res, existing) ==
    /\ response' = Resp(op, req, id, res, existing, <<>>)
    /\ UNCHANGED Store

\* updateEssay up to `await req.json()`: the handler answers, or is
\* suspended holding req, id and the title and content of the row it read
UpdateEssayBegin(req, param) ==
    LET id == parseInt(param)
        existing == findById(id.n)
    IN IF id.nan
       THEN Refuse("updateEssay", req, 0, Json(400, [error |-> "Invalid essay ID"]), NULL)
       ELSE IF existing = NULL
       THEN Refuse("updateEssay", req, id.n, Json(404, [error |-> "Essay not found"]), NULL)
       ELSE IF notOwner(existing, req)
       THEN Refuse("updateEssay", req, id.n, Json(403, [error |-> "Unauthorized"]), existing)
       ELSE /\ pending' = pending (+) SetToBag({[req |-> req, id |-> id.n,
                                                 existing |-> [title |-> existing.title,
                                                               content |-> existing.content]]})
            /\ UNCHANGED <<users, essays, seq, now, response, issued, localStorage, process, generator, terminal, authState>>

\* faulty variant: the UPDATE runs before the title and the content are
\* validated
updateEssayResultWritesFirst(call, body) ==
    LET title == IF body.title = <<>> \/ Len(trim(body.title[1])) = 0
                 THEN call.existing.title ELSE trim(body.title[1])
        content == IF body.content = <<>> THEN call.existing.content
                   ELSE body.content[1]
        table == updateTable(title, content, call.id, call.req.userId)
        essay == Returning(table, call.id, call.req.userId)
    IN IF Len(title) = 0
       THEN [res |-> Json(400, [error |-> "Title cannot be empty"]),
             table |-> table, changes |-> <<Changes(call.id, call.req.userId)>>]
       ELSE IF exceedsMaximum(content)
       THEN [res |-> Json(400, [error |-> "Essay content exceeds maximum length"]),
             table |-> table, changes |-> <<Changes(call.id, call.req.userId)>>]
       ELSE IF essay = NULL
       THEN [res |-> Json(500, [error |-> "Failed to update essay"]),
             table |-> table, changes |-> <<Changes(call.id, call.req.userId)>>]
       ELSE [res |-> Json(200, [message |-> "Essay updated", essay |-> essay]),
             table |-> table, changes |-> <<Changes(call.id, call.req.userId)>>]

\* the response of updateEssay after `await req.json()` and the table it leaves
updateEssayResult(call, body) ==
    LET title == IF body.title = <<>> \/ Len(trim(body.title[1])) = 0
                 THEN call.existing.title ELSE trim(body.title[1])
        content == IF body.content = <<>> THEN call.existing.content
                   ELSE body.content[1]
        table == updateTable(title, content, call.id, call.req.userId)
        essay == Returning(table, call.id, call.req.userId)
    IN IF Len(title) = 0
       THEN [res |-> Json(400, [error |-> "Title cannot be empty"]),
             table |-> essays, changes |-> <<>>]
       ELSE IF exceedsMaximum(content)
       THEN [res |-> Json(400, [error |-> "Essay content exceeds maximum length"]),
             table |-> essays, changes |-> <<>>]
       ELSE IF essay = NULL
       THEN [res |-> Json(500, [error |-> "Failed to update essay"]),
             table |-> table, changes |-> <<Changes(call.id, call.req.userId)>>]
       ELSE [res |-> Json(200, [message |-> "Essay updated", essay |-> essay]),
             table |-> table, changes |-> <<Changes(call.id, call.req.userId)>>]

\* updateEssay resumed: a suspended call reads its body and finishes
UpdateEssayFinish(call, body) ==
    LET r == IF ~body.json
             THEN [res |-> InternalServerError, table |-> essays, changes |-> <<>>]
             ELSE updateEssayResult(call, body)
    IN /\ response' = RespTo(body, "updateEssay", call.req, call.id, r.res,
                             call.existing, r.changes)
       /\ essays' = r.table
       /\ pending' = pending (-) SetToBag({call})
       /\ UNCHANGED <<users, seq, now, issued, localStorage, process, generator, terminal, authState>>

\* faulty variant: deleteEssay without its ownership check, on DELETE ... WHERE id = ?
DeleteEssayById(req, param) ==
    LET id == parseInt(param)
        existing == findById(id.n)
    IN IF id.nan
       THEN Refuse("deleteEssay", req, 0, Json(400, [error |-> "Invalid essay ID"]), NULL)
       ELSE IF existing = NULL
       THEN Refuse("deleteEssay", req, id.n, Json(404, [error |-> "Essay not found"]), NULL)
       ELSE /\ essays' = {e \in essays : e.id # id.n}
            /\ response' = Resp("deleteEssay", req, id.n,
                                Json(200, [message |-> "Essay deleted"]), existing, <<1>>)
            /\ UNCHANGED <<users, seq, now, pending, issued, localStorage, process, generator, terminal, authState>>

\* deleteEssay
DeleteEssay(req, param) ==
    LET id == parseInt(param)
        existing == findById(id.n)
    IN IF id.nan
       THEN Refuse("deleteEssay", req, 0, Json(400, [error |-> "Invalid essay ID"]), NULL)
       ELSE IF existing = NULL
       THEN Refuse("deleteEssay", req, id.n, Json(404, [error |-> "Essay not found"]), NULL)
       ELSE IF notOwner(existing, req)
       THEN Refuse("deleteEssay", req, id.n, Json(403, [error |-> "Unauthorized"]), existing)
       ELSE /\ essays' = deleteTable(id.n, req.userId)
            /\ response' = Resp("deleteEssay", req, id.n,
                                Json(200, [message |-> "Essay deleted"]), existing,
                                <<Changes(id.n, req.userId)>>)
            /\ UNCHANGED <<users, seq, now, pending, issued, localStorage, process, generator, terminal, authState>>

\* publishEssay and unpublishEssay differ in the status they set and in
\* their messages
setStatus(op, status, failed, done, req, param) ==
    LET id == parseInt(param)
        existing == findById(id.n)
        table == updateStatusTable(status, id.n, req.userId)
        essay == Returning(table, id.n, req.userId)
    IN IF id.nan
       THEN Refuse(op, req, 0, Json(400, [error |-> "Invalid essay ID"]), NULL)
       ELSE IF existing = NULL
       THEN Refuse(op, req, id.n, Json(404, [error |-> "Essay not found"]), NULL)
       ELSE IF notOwner(existing, req)
       THEN Refuse(op, req, id.n, Json(403, [error |-> "Unauthorized"]), existing)
       ELSE /\ essays' = table
            /\ response' = Resp(op, req, id.n,
                                IF essay = NULL THEN Json(500, [error |-> failed])
                                ELSE Json(200, [message |-> done, essay |-> essay]),
                                existing, <<Changes(id.n, req.userId)>>)
            /\ UNCHANGED <<users, seq, now, pending, issued, localStorage, process, generator, terminal, authState>>

\* publishEssay
PublishEssay(req, param) ==
    setStatus("publishEssay", "published", "Failed to publish essay",
              "Essay published", req, param)

\* unpublishEssay
UnpublishEssay(req, param) ==
    setStatus("unpublishEssay", "draft", "Failed to unpublish essay",
              "Essay unpublished", req, param)

(***************************************************************************)
(* The environment: the clock, the socket, and what clients can send.      *)
(***************************************************************************)
\* a second passes
Tick ==
    /\ now' = now + 1
    /\ UNCHANGED <<users, essays, seq, pending, response, issued, localStorage, process, generator, terminal, authState>>

\* the response is written out
Deliver ==
    /\ response # NULL
    /\ response' = NULL
    /\ UNCHANGED Store

\* The accounts of the database the server is started on.  Registration and
\* login do not touch the essays table; a login at any moment up to now
\* yields a token, so clients hold the tokens of IssuedTokens.  (Logins are
\* steps of SpecToken only, where issued collects the tokens they return
\* and localStorage is the token the browser keeps.)
Accounts ==
    {[id |-> 1, username |-> alice, password_hash |-> [argon2id |-> secret1]],
     [id |-> 2, username |-> bob, password_hash |-> [argon2id |-> secret2]]}

IssuedTokens == {createToken(u.id, u.username, t) : u \in users, t \in 0..now}

\* tokens no login returned: one signed with another key, one with the
\* payload swapped under a genuine signature, one whose signature is not
\* base64, one of two segments
ForgedTokens ==
    LET claim == B64([userId |-> 1, username |-> alice, iat |-> 0, exp |-> JWT_EXPIRY])
        data == <<B64(JWTHeader), claim>>
        bobs == createToken(2, bob, 0)
    IN {data \o <<B64(Hmac("attacker-key", data))>>, <<bobs[1], claim, bobs[3]>>,
        data \o <<Garbage>>, data}

AuthHeaders ==
    {NULL, Header("Basic ", <<>>)}
        \cup {Header("Bearer ", t) : t \in IssuedTokens \cup ForgedTokens \cup {<<>>}}

\* req.params.id: the ids the table can hold, a word, and a number followed
\* by a letter
IdParams ==
    {<<Digits[i + 1]>> : i \in 1..MaxEssays} \cup {<<"x">>, <<"1", "x">>}

TitleInputs == {<<" ">>, <<"H", "i">>, <<" ", "H", "i", " ">>}

ContentInputs == {Str("Body", 4), Str("long", MAX_ESSAY_LENGTH + 1)}

Optional(S) == {<<>>} \cup {<<x>> : x \in S}

Bodies ==
    {BadJson} \cup {Body(t, c) : t \in Optional(TitleInputs), c \in Optional(ContentInputs)}

Init ==
    /\ users = Accounts
    /\ essays = {}
    /\ seq = 0
    /\ now = 0
    /\ pending = EmptyBag
    /\ response = NULL
    /\ issued = {}
    /\ localStorage = NULL
    /\ process = Serving(Configured)
    /\ generator = NULL
    /\ terminal = useTerminal
    /\ authState = useAuth

\* what requireAuth and optionalAuth make of the headers clients can send
Required == {requireAuth(h, now) : h \in AuthHeaders}

Optionally == {optionalAuth(h, now) : h \in AuthHeaders}

\* the ids parseInt makes of the paths clients can ask for; the handler is
\* given a path of each
Paths == {CHOOSE p \in IdParams : parseInt(p) = n : n \in {parseInt(q) : q \in IdParams}}

\* the previous response has been written out
Idle == response = NULL

\* index.ts: each route's handler behind its middleware
Next ==
    \/ Idle /\ GetPublishedEssays
    \/ Idle /\ \E auth \in Required :
          IF auth.pass THEN GetUserEssays(auth.req)
          ELSE Unauthenticated("getUserEssays", auth)
    \/ Idle /\ \E req \in Optionally, p \in Paths : GetEssay(req, p)
    \/ Idle /\ seq < MaxEssays /\ \E auth \in Required, b \in Bodies :
          IF auth.pass THEN CreateEssay(auth.req, b)
          ELSE Unauthenticated("createEssay", auth)
    \/ Idle /\ BagCardinality(pending) < MaxInflight /\ \E auth \in Required, p \in Paths :
          IF auth.pass THEN UpdateEssayBegin(auth.req, p)
          ELSE Unauthenticated("updateEssay", auth)
    \/ Idle /\ \E call \in BagToSet(pending), b \in Bodies : UpdateEssayFinish(call, b)
    \/ Idle /\ \E auth \in Required, p \in Paths :
          IF auth.pass THEN DeleteEssay(auth.req, p)
          ELSE Unauthenticated("deleteEssay", auth)
    \/ Idle /\ \E auth \in Required, p \in Paths :
          IF auth.pass THEN PublishEssay(auth.req, p)
          ELSE Unauthenticated("publishEssay", auth)
    \/ Idle /\ \E auth \in Required, p \in Paths :
          IF auth.pass THEN UnpublishEssay(auth.req, p)
          ELSE Unauthenticated("unpublishEssay", auth)
    \/ Idle /\ now < MaxTime /\ Tick
    \/ Deliver

Spec == Init /\ [][Next]_vars

(***************************************************************************)
(* Properties.                                                             *)
(***************************************************************************)
WriteOps == {"updateEssay", "deleteEssay", "publishEssay", "unpublishEssay"}

Answered(op) == response # NULL /\ response.op = op

InvalidId == [error |-> "Invalid essay ID"]

NotFound == [error |-> "Essay not found"]

\* the caller of the response is the verified owner of row e
CallerOwns(r, e) == r.req.authenticated /\ r.req.userId = e.user_id

\* C1: getEssay on a numeric id answers 200 with the essay exactly when the
\* essay exists and is published or owned by the verified caller; in every
\* other case it answers 404 "Essay not found", the answer for an id that
\* names no essay.
C1_ReadVisibility ==
    (Answered("getEssay") /\ response.body # InvalidId) =>
        LET e == findById(response.id)
        IN IF e # NULL /\ (e.status = "published" \/ CallerOwns(response, e))
           THEN /\ response.code = 200
                /\ response.body.essay.id = e.id
                /\ response.body.essay.content = e.content
           ELSE response.code = 404 /\ response.body = NotFound

\* a draft that exists is answered 404 to an authenticated account that
\* does not own it
C1_Witness ==
    /\ Answered("getEssay")
    /\ response.code = 404
    /\ response.req.authenticated
    /\ findById(response.id) # NULL

\* C2: a row of essays changes or disappears only in a step that handles a
\* write request whose verified account id is the row's owner.
C2_NoCrossAccountMutation ==
    [][\A e \in essays :
          e \notin essays' =>
              /\ response' # NULL
              /\ response'.op \in WriteOps
              /\ CallerOwns(response', e)]_vars

\* an owner's delete took effect while another account's updateEssay was
\* suspended
C2_Witness ==
    /\ Answered("deleteEssay")
    /\ response.code = 200
    /\ \E call \in BagToSet(pending) : call.req.userId # response.req.userId

\* C3: update, delete, publish and unpublish by an authenticated account
\* that does not own the essay answer 403 when the essay exists and 404
\* when the id names none, before any body is read, and change no row.
C3_NonOwnerWriteRefused ==
    [][(/\ response' # NULL
        /\ response'.op \in WriteOps
        /\ response'.req.authenticated
        /\ response'.body # InvalidId
        /\ pending' = pending) =>
           LET e == findById(response'.id)
           IN /\ e = NULL => response'.code = 404 /\ essays' = essays
              /\ (e # NULL /\ ~CallerOwns(response', e)) =>
                     /\ response'.code = 403
                     /\ response'.input = NULL
                     /\ essays' = essays]_vars

\* an account was answered 403 for an essay that exists and is another's
C3_Witness ==
    /\ response # NULL
    /\ response.op \in WriteOps
    /\ response.code = 403
    /\ response.existing # NULL
    /\ response.existing \in essays
    /\ response.existing.user_id # response.req.userId

\* C4: a handler whose ownership-scoped write touched no row answers 403
\* or 404.
C4_ZeroRowsRefused ==
    (response # NULL /\ response.changes = <<0>>) => response.code \in {403, 404}

\* C5: a stored essay keeps its owner, and a new row's owner is the
\* verified account id of the createEssay request that stored it.
C5_OwnerFixed ==
    [][\A f \in essays' :
          IF \E e \in essays : e.id = f.id
          THEN f.user_id = findById(f.id).user_id
          ELSE /\ response' # NULL
               /\ response'.op = "createEssay"
               /\ response'.code = 201
               /\ CallerOwns(response', f)]_vars

\* an essay published by its owner a second or more after it was created
\* is still its creator's
C5_Witness ==
    /\ Answered("publishEssay")
    /\ response.code = 200
    /\ \E e \in essays :
          /\ e.id = response.id
          /\ e.user_id = response.req.userId
          /\ e.updated_at > 0

\* C6: every status is draft or published; a new row is a draft; a row's
\* status changes only in a publish or unpublish step of its owner, to
\* published and to draft respectively.
C6_StatusLifecycle ==
    [][\A f \in essays' :
          /\ f.status \in {"draft", "published"}
          /\ IF \E e \in essays : e.id = f.id
             THEN f.status # findById(f.id).status =>
                      /\ response' # NULL
                      /\ CallerOwns(response', f)
                      /\ \/ response'.op = "publishEssay" /\ f.status = "published"
                         \/ response'.op = "unpublishEssay" /\ f.status = "draft"
             ELSE f.status = "draft"]_vars

\* an owner's unpublish turned a published essay into a draft
C6_Witness ==
    /\ Answered("unpublishEssay")
    /\ response.code = 200
    /\ response.existing.status = "published"
    /\ findById(response.id).status = "draft"

\* C7: publish by the owner answers 200 and leaves the essay published
\* whatever its status was, unpublish by the owner answers 200 and leaves
\* it a draft: a second application answers and leaves what the first did.
C7_PublishIdempotent ==
    /\ (Answered("publishEssay") /\ response.existing # NULL
            /\ CallerOwns(response, response.existing)) =>
           /\ response.code = 200
           /\ response.body.essay.status = "published"
           /\ findById(response.id).status = "published"
    /\ (Answered("unpublishEssay") /\ response.existing # NULL
            /\ CallerOwns(response, response.existing)) =>
           /\ response.code = 200
           /\ response.body.essay.status = "draft"
           /\ findById(response.id).status = "draft"

\* publish was applied to an essay that was already published
C7_Witness ==
    /\ Answered("publishEssay")
    /\ response.code = 200
    /\ response.existing.status = "published"

\* an essay of the table as a listing shows it, with this author
Shows(item, e, author) ==
    /\ item.id = e.id
    /\ item.user_id = e.user_id
    /\ item.title = e.title
    /\ item.content = e.content
    /\ item.status = e.status
    /\ item.updated_at = e.updated_at
    /\ author => item.author = userFindById(e.user_id).username

\* C8: the public listing answers 200 with one entry per published essay,
\* of any owner, each with its owner's username, and no entry for a draft
\* or for an essay that is not stored.
C8_PublicListing ==
    Answered("getPublishedEssays") =>
        LET list == response.body.essays
        IN /\ response.code = 200
           /\ \A i \in DOMAIN list :
                 \E e \in essays : e.status = "published" /\ Shows(list[i], e, TRUE)
           /\ \A e \in essays :
                 e.status = "published" => \E i \in DOMAIN list : list[i].id = e.id
           /\ \A i, j \in DOMAIN list : i # j => list[i].id # list[j].id

\* the listing shows the published essay of one account while the other
\* account's draft is stored
C8_Witness ==
    /\ Answered("getPublishedEssays")
    /\ Len(response.body.essays) = 1
    /\ \E e \in essays :
          /\ e.status = "draft"
          /\ e.user_id # response.body.essays[1].user_id

\* C9: the essays listing of an authenticated account answers 200 with one
\* entry per essay it owns, draft or published, none of another account,
\* and no entry precedes one updated later.
C9_OwnListing ==
    (Answered("getUserEssays") /\ response.req.authenticated) =>
        LET list == response.body.essays
        IN /\ response.code = 200
           /\ \A i \in DOMAIN list :
                 \E e \in essays : CallerOwns(response, e) /\ Shows(list[i], e, FALSE)
           /\ \A e \in essays :
                 CallerOwns(response, e) => \E i \in DOMAIN list : list[i].id = e.id
           /\ \A i, j \in DOMAIN list : i # j => list[i].id # list[j].id
           /\ \A i, j \in DOMAIN list :
                 i < j => list[i].updated_at >= list[j].updated_at

\* the listing holds a published essay updated after the draft that
\* follows it
C9_Witness ==
    /\ Answered("getUserEssays")
    /\ response.code = 200
    /\ Len(response.body.essays) = 2
    /\ response.body.essays[1].updated_at > response.body.essays[2].updated_at
    /\ response.body.essays[1].id < response.body.essays[2].id
    /\ response.body.essays[1].status = "published"
    /\ response.body.essays[2].status = "draft"

\* the path a client puts an essay's id in: `/api/essays/${id}`
IdParam(id) == <<Digits[id + 1]>>

\* what the creator reads under the id createEssay returned
ReadBack == getEssayResponse(response.req, IdParam(response.body.essay.id))

\* C10 as claimed: after createEssay stored title T and content C, the
\* creator's getEssay of the returned id answers title T, content C, status
\* draft and the creator's username as author.
C10_RoundTripVerbatim ==
    (Answered("createEssay") /\ response.code = 201) =>
        /\ ReadBack.code = 200
        /\ ReadBack.body.essay.title = response.input.title[1]
        /\ ReadBack.body.essay.content = response.input.content[1]
        /\ ReadBack.body.essay.status = "draft"
        /\ ReadBack.body.essay.author = response.req.username

\* C10 amended: the title read back is T without its leading and trailing
\* white space.
C10_RoundTripTrimmed ==
    (Answered("createEssay") /\ response.code = 201) =>
        /\ ReadBack.code = 200
        /\ ReadBack.body.essay.id = response.body.essay.id
        /\ ReadBack.body.essay.title = trim(response.input.title[1])
        /\ ReadBack.body.essay.content = response.input.content[1]
        /\ ReadBack.body.essay.status = "draft"
        /\ ReadBack.body.essay.author = response.req.username

\* an account whose id is not the new essay's id created it with a title
\* that has white space around it, and reads it back
C10_Witness ==
    /\ Answered("createEssay")
    /\ response.code = 201
    /\ response.input.title[1] # trim(response.input.title[1])
    /\ response.req.userId # response.body.essay.id
    /\ ReadBack.code = 200

(***************************************************************************)
(* The validation of createEssay and updateEssay on its own: one account   *)
(* creates, updates and deletes essays, with bodies that reach every       *)
(* branch of the two validations and both sides of the length limit.       *)
(***************************************************************************)
BoundaryTitles == {<<>>, <<" ">>, <<"H", "i">>, <<" ", "H", "i", " ">>}

BoundaryContents ==
    {Str("", 0), Str("Body", 4), Str("max", MAX_ESSAY_LENGTH),
     Str("long", MAX_ESSAY_LENGTH + 1)}

BoundaryBodies ==
    {BadJson}
        \cup {Body(t, c) : t \in Optional(BoundaryTitles), c \in Optional(BoundaryContents)}

\* the identity requireAuth attaches for alice's token
Alice == requireAuth(Header("Bearer ", createToken(1, alice, 0)), now).req

NextContent ==
    \/ Idle /\ seq < MaxEssays /\ \E b \in BoundaryBodies : CreateEssay(Alice, b)
    \/ Idle /\ BagCardinality(pending) < MaxInflight
            /\ \E p \in Paths : UpdateEssayBegin(Alice, p)
    \/ Idle /\ \E call \in BagToSet(pending), b \in BoundaryBodies :
          UpdateEssayFinish(call, b)
    \/ Idle /\ \E p \in Paths : DeleteEssay(Alice, p)
    \/ Idle /\ \E p \in Paths : GetEssay(Alice, p)
    \/ Deliver

SpecContent == Init /\ [][NextContent]_vars

\* createEssay's request is acceptable as the interface describes it: a
\* title that is non-empty after trimming and content within the maximum
Acceptable(body) ==
    /\ body.json
    /\ body.title # <<>>
    /\ Len(trim(body.title[1])) > 0
    /\ body.content # <<>>
    /\ body.content[1].length <= MAX_ESSAY_LENGTH

\* C11: createEssay for an authenticated caller answers 201 and stores one
\* new essay exactly when the title is non-empty after trimming and the
\* content is within the maximum length; otherwise it answers 400 and
\* stores nothing.
C11_CreateValidation ==
    [][(response' # NULL /\ response'.op = "createEssay"
            /\ response'.req.authenticated) =>
           IF Acceptable(response'.input)
           THEN /\ response'.code = 201
                /\ response'.body.essay \notin essays
                /\ essays' = essays \cup {response'.body.essay}
           ELSE /\ response'.code = 400
                /\ essays' = essays]_vars

\* C12: createEssay and updateEssay accept content of exactly the maximum
\* length (201, and 200 when the row is there to be written), refuse
\* content one character longer with 400, and no stored content is longer
\* than the maximum.
C12_LengthBoundary ==
    /\ \A e \in essays : e.content.length <= MAX_ESSAY_LENGTH
    /\ (response # NULL /\ response.op \in {"createEssay", "updateEssay"}
            /\ response.input # NULL /\ response.input.json
            /\ response.input.content # <<>>) =>
           LET content == response.input.content[1]
               written == response.changes # <<0>>
               titled == response.op = "updateEssay"
                            \/ (/\ response.input.title # <<>>
                                /\ Len(trim(response.input.title[1])) > 0)
           IN /\ (content.length = MAX_ESSAY_LENGTH /\ titled /\ written) =>
                     /\ response.code = IF response.op = "createEssay" THEN 201 ELSE 200
                     /\ response.body.essay.content = content
                     /\ findById(response.body.essay.id).content = content
              /\ (content.length = MAX_ESSAY_LENGTH + 1 /\ titled) =>
                     /\ response.code = 400
                     /\ response.changes = <<>>

\* an update stored content of exactly the maximum length over shorter
\* content
C12_Witness ==
    /\ Answered("updateEssay")
    /\ response.code = 200
    /\ response.existing.content.length < MAX_ESSAY_LENGTH
    /\ findById(response.id).content.length = MAX_ESSAY_LENGTH

\* the id was handed out and its row has been deleted
Deleted(id) == id \in 1..seq /\ findById(id) = NULL

\* C13: a delete by the owner removes the row and nothing else; every read,
\* update, publish, unpublish or delete answered for an id whose row has
\* been deleted answers 404; no listing shows a deleted row.
C13_DeletedStaysGone ==
    [][/\ (response' # NULL /\ response'.op = "deleteEssay" /\ response'.code = 200) =>
              /\ essays' = {e \in essays : e.id # response'.id}
              /\ users' = users
       /\ (response' # NULL /\ response'.op \in WriteOps \cup {"getEssay"}
               /\ Deleted(response'.id)) =>
              response'.code = 404
       /\ (response' # NULL /\ response'.op \in {"getPublishedEssays", "getUserEssays"}
               /\ response'.code = 200) =>
              \A i \in DOMAIN response'.body.essays :
                  ~Deleted(response'.body.essays[i].id)]_vars

(***************************************************************************)
(* The token service on its own: logins that issue tokens, the browser     *)
(* that keeps and drops them, a clock that can skip a token's lifetime,    *)
(* and requests that present issued and tampered tokens to verifyToken     *)
(* and to the two middlewares wrapped around a handler that records its    *)
(* invocations.                                                            *)
(***************************************************************************)
\* faulty variant: any password passes
passwordVerifyAny(password, hash) == TRUE

\* Bun.password.verify(password, hash)
passwordVerify(password, hash) == hash.argon2id = password

\* userQueries.findByUsername.get(username)
findByUsername(username) ==
    IF \E u \in users : u.username = username
    THEN CHOOSE u \in users : u.username = username
    ELSE NULL

\* the body of a login request; a field is <<value>>, or <<>> when absent
Credentials(username, password) ==
    [json |-> TRUE, username |-> username, password |-> password]

\* the response of login, and the token it issued (<<>> when none)
loginResult(body) ==
    LET user == findByUsername(body.username[1])
        token == createToken(user.id, user.username, now)
    IN IF ~body.json THEN [res |-> InternalServerError, token |-> <<>>]
       ELSE IF body.username = <<>> \/ body.password = <<>>
                 \/ body.username[1] = <<>> \/ body.password[1] = <<>>
       THEN [res |-> Json(400, [error |-> "Username and password are required"]),
             token |-> <<>>]
       ELSE IF user = NULL
       THEN [res |-> Json(401, [error |-> "Invalid username or password"]), token |-> <<>>]
       ELSE IF ~passwordVerify(body.password[1], user.password_hash)
       THEN [res |-> Json(401, [error |-> "Invalid username or password"]), token |-> <<>>]
       ELSE [res |-> Json(200, [message |-> "Login successful", token |-> token,
                                user |-> [id |-> user.id, username |-> user.username]]),
             token |-> token]

\* login
Login(body) ==
    LET r == loginResult(body)
    IN /\ response' = [op |-> "login", input |-> body, at |-> now,
                       code |-> r.res.code, body |-> r.res.body]
       /\ issued' = IF r.token = <<>> THEN issued ELSE issued \cup {r.token}
       /\ UNCHANGED <<users, essays, seq, now, pending, localStorage, process, generator, terminal, authState>>

\* useAuth: the browser takes the response; it stores the token of a
\* successful login or registration
Receive ==
    /\ response # NULL
    /\ response' = NULL
    /\ localStorage' = IF response.op \in {"login", "register"} /\ response.code = 200
                       THEN response.body.token ELSE localStorage
    /\ UNCHANGED <<users, essays, seq, now, pending, issued, process, generator, terminal, authState>>

\* useAuth logout: the browser drops its token; the server is not told
Logout ==
    /\ localStorage # NULL
    /\ localStorage' = NULL
    /\ UNCHANGED <<users, essays, seq, now, pending, response, issued, process, generator, terminal, authState>>

\* authFetch: the browser deletes an essay with the token it keeps
BrowserDeletesEssay(param) ==
    LET auth == requireAuth(Header("Bearer ", localStorage), now)
    IN /\ localStorage # NULL
       /\ IF auth.pass THEN DeleteEssay(auth.req, param)
          ELSE Unauthenticated("deleteEssay", auth)

\* the clock skips to one second before the lifetime of a token issued now
\* runs out
Skip ==
    /\ now' = now + JWT_EXPIRY - 1
    /\ UNCHANGED <<users, essays, seq, pending, response, issued, localStorage, process, generator, terminal, authState>>

\* verifyToken(token)
VerifyToken(token) ==
    /\ response' = [op |-> "verifyToken", token |-> token, at |-> now,
                    payload |-> verifyToken(token, now)]
    /\ UNCHANGED Store

\* requireAuth(handler)(req) for a handler that records the requests it is
\* invoked with and answers 200
RequireAuth(authHeader) ==
    LET auth == requireAuth(authHeader, now)
    IN /\ response' = [op |-> "requireAuth", header |-> authHeader, at |-> now,
                       invoked |-> IF auth.pass THEN <<auth.req>> ELSE <<>>,
                       code |-> IF auth.pass THEN 200 ELSE auth.res.code,
                       body |-> IF auth.pass THEN NULL ELSE auth.res.body]
       /\ UNCHANGED Store

\* optionalAuth(handler)(req) for the same handler
OptionalAuth(authHeader) ==
    /\ response' = [op |-> "optionalAuth", header |-> authHeader, at |-> now,
                    invoked |-> <<optionalAuth(authHeader, now)>>,
                    code |-> 200, body |-> NULL]
    /\ UNCHANGED Store

\* what can be made of a token without the server's secret
Tampered(token) ==
    LET data == <<token[1], token[2]>>
        claims == token[2].of
        others == B64([claims EXCEPT !.userId = IF @ = 1 THEN 2 ELSE 1])
        longer == B64([claims EXCEPT !.exp = @ + JWT_EXPIRY])
    IN {<<token[1], token[2], Respell(token[3], sp)>> : sp \in Spellings \ {"url"}}
         \cup {<<token[1], Respell(token[2], "padded"), token[3]>>,
               <<Respell(token[1], "padded"), token[2], token[3]>>,
               <<token[1], others, token[3]>>,
               <<token[1], longer, token[3]>>,
               <<B64([alg |-> "none", typ |-> "JWT"]), token[2], token[3]>>,
               data \o <<B64(Hmac("attacker-key", data))>>,
               data \o <<Garbage>>,
               data,
               token \o <<token[3]>>}

\* texts signed with the server's secret that createToken never writes
Unparsable ==
    {<<B64(JWTHeader), p, sign(<<B64(JWTHeader), p>>)>> : p \in {Garbage, B64(NotJson)}}

\* the tokens requests present: those issued, what can be made of the one
\* the browser keeps, and the texts of Unparsable
Presented ==
    issued \cup Unparsable
        \cup (IF localStorage = NULL THEN {} ELSE Tampered(localStorage))

PresentedHeaders ==
    {NULL, Header("Basic ", <<>>), Header("Bearer ", <<>>)}
        \cup {Header("Bearer ", t) : t \in Presented}

LoginBodies ==
    {BadJson, Credentials(<<>>, <<secret1>>), Credentials(<<alice>>, <<secret1>>),
     Credentials(<<bob>>, <<secret2>>), Credentials(<<alice>>, <<secret2>>),
     Credentials(<<carol>>, <<secret1>>)}

\* the clock ticks around the end of the lifetime of a token issued at the
\* start, until MaxTime seconds after it
Ticking == JWT_EXPIRY - 1 <= now /\ now < JWT_EXPIRY + MaxTime

\* the server some time after alice stored a draft
InitToken ==
    /\ users = Accounts
    /\ essays = {[id |-> 1, user_id |-> 1, title |-> <<"H", "i">>,
                  content |-> Str("Body", 4), status |-> "draft", updated_at |-> 0]}
    /\ seq = 1
    /\ now = 0
    /\ pending = EmptyBag
    /\ response = NULL
    /\ issued = {}
    /\ localStorage = NULL
    /\ process = Serving(Configured)
    /\ generator = NULL
    /\ terminal = useTerminal
    /\ authState = useAuth

NextToken ==
    \/ Idle /\ Cardinality(issued) < MaxTokens /\ \E b \in LoginBodies : Login(b)
    \/ Receive
    \/ Idle /\ Logout
    \/ Idle /\ BrowserDeletesEssay(<<"1">>)
    \/ Idle /\ Ticking /\ Tick
    \/ Idle /\ now < JWT_EXPIRY - 1 /\ Skip
    \/ Idle /\ \E t \in Presented : VerifyToken(t)
    \/ Idle /\ \E h \in PresentedHeaders : RequireAuth(h)
    \/ Idle /\ \E h \in PresentedHeaders : OptionalAuth(h)

SpecToken == InitToken /\ [][NextToken]_vars

(***************************************************************************)
(* Properties of the token service.                                        *)
(***************************************************************************)
\* the claims written in a token's payload segment
ClaimsOf(token) == token[2].of

\* the header carries a bearer token
Bearer(header) == header # NULL /\ header.prefix = "Bearer " /\ header.rest # <<>>

\* C14: the token a login returns verifies at once, to the id and name of
\* the account that logged in; an issued token verified after its expiry
\* has passed yields null.
C14_IssueThenVerify ==
    /\ (Answered("login") /\ response.code = 200) =>
           LET payload == verifyToken(response.body.token, now)
               account == CHOOSE u \in users : u.username = response.input.username[1]
           IN /\ payload # NULL
              /\ payload.userId = account.id
              /\ payload.username = account.username
              /\ payload.userId = response.body.user.id
    /\ (Answered("verifyToken") /\ response.token \in issued
            /\ response.at > ClaimsOf(response.token).exp) =>
           response.payload = NULL

\* bob's token, issued at the start, is refused a second after its expiry
C14_Witness ==
    /\ Answered("verifyToken")
    /\ response.token \in issued
    /\ ClaimsOf(response.token).username = bob
    /\ response.at = ClaimsOf(response.token).exp + 1
    /\ response.payload = NULL

\* C15: verifyToken returns claims only while the clock reads less than
\* the token's exp.
C15_StrictExpiry ==
    (Answered("verifyToken") /\ response.payload # NULL) =>
        response.at < response.payload.exp

\* C16: a token made from the one the browser keeps by changing its
\* signature segment, or its header or payload segment under the same
\* signature, is refused.
C16_TokenIntegrity ==
    (Answered("verifyToken") /\ localStorage # NULL
        /\ response.token \in Tampered(localStorage)) =>
        response.payload = NULL

\* the text is not a token verifyToken's steps get through: not three
\* segments, a signature or payload atob refuses, a payload that is not
\* JSON, a signature that is not the server's over the first two segments,
\* or an exp before the clock
Malformed(token, t) ==
    \/ Len(token) # 3
    \/ ~token[3].b64
    \/ ~token[2].b64
    \/ token[2].of = NotJson
    \/ token[3].of # Hmac(JWT_SECRET, <<token[1], token[2]>>)
    \/ token[2].of.exp < t

\* C17: verifyToken answers null, and not an exception, for every text
\* that is not three segments, does not decode, does not parse, is not
\* signed by the server or has expired; requireAuth then answers 401 and
\* optionalAuth runs the handler without identity.
C17_NullNeverThrows ==
    /\ (Answered("verifyToken") /\ Malformed(response.token, response.at)) =>
           response.payload = NULL
    /\ (response # NULL /\ response.op \in {"requireAuth", "optionalAuth"}
            /\ Bearer(response.header)
            /\ Malformed(response.header.rest, response.at)) =>
           IF response.op = "requireAuth"
           THEN response.code = 401 /\ response.invoked = <<>>
           ELSE response.code = 200 /\ response.invoked = <<Anonymous>>

\* a text signed by the server whose payload segment atob refuses was
\* answered null
C17_Witness ==
    /\ Answered("verifyToken")
    /\ Len(response.token) = 3
    /\ ~response.token[2].b64
    /\ response.token[3] = sign(<<response.token[1], response.token[2]>>)
    /\ response.payload = NULL

\* C18: requireAuth answers 401 without running the handler when the
\* request has no bearer token or verifyToken answers null for it, and
\* otherwise runs the handler once, with the token's userId and username.
C18_RequireAuth ==
    Answered("requireAuth") =>
        IF ~Bearer(response.header)
        THEN response.code = 401 /\ response.invoked = <<>>
        ELSE IF verifyToken(response.header.rest, response.at) = NULL
        THEN response.code = 401 /\ response.invoked = <<>>
        ELSE /\ Len(response.invoked) = 1
             /\ response.invoked[1].userId = ClaimsOf(response.header.rest).userId
             /\ response.invoked[1].username = ClaimsOf(response.header.rest).username
             /\ response.code = 200

\* the handler ran for bob's token while the browser keeps a later one
C18_Witness ==
    /\ Answered("requireAuth")
    /\ Len(response.invoked) = 1
    /\ response.invoked[1].username = bob
    /\ localStorage # NULL
    /\ response.header.rest # localStorage

\* C19: optionalAuth runs the handler once for every request and never
\* answers itself; the handler gets the token's identity exactly when a
\* bearer token is present and verifies, and otherwise the request an
\* anonymous client's gets.
C19_OptionalAuth ==
    Answered("optionalAuth") =>
        LET verified == /\ Bearer(response.header)
                        /\ verifyToken(response.header.rest, response.at) # NULL
        IN /\ Len(response.invoked) = 1
           /\ response.code = 200
           /\ response.invoked[1].authenticated <=> verified
           /\ verified =>
                 /\ response.invoked[1].userId = ClaimsOf(response.header.rest).userId
                 /\ response.invoked[1].username = ClaimsOf(response.header.rest).username
           /\ ~verified => response.invoked[1] = optionalAuth(NULL, response.at)

\* the handler ran without identity for a token whose payload was replaced
\* under the genuine signature
C19_Witness ==
    /\ Answered("optionalAuth")
    /\ Bearer(response.header)
    /\ Len(response.header.rest) = 3
    /\ localStorage # NULL
    /\ response.header.rest[3] = localStorage[3]
    /\ response.header.rest[2] # localStorage[2]
    /\ ~response.invoked[1].authenticated

\* C20: an issued token verifies to its claims at every time before its
\* exp, whatever logins, logouts and deletions have happened since it was
\* issued.
C20_NoRevocation ==
    (Answered("verifyToken") /\ response.token \in issued
        /\ response.at < ClaimsOf(response.token).exp) =>
        response.payload = ClaimsOf(response.token)

\* alice's first token verifies a second before its expiry, after she
\* deleted her essay, logged in again and logged out
C20_Witness ==
    /\ Answered("verifyToken")
    /\ response.token \in issued
    /\ response.payload = ClaimsOf(response.token)
    /\ response.at = ClaimsOf(response.token).exp - 1
    /\ localStorage = NULL
    /\ essays = {}
    /\ \E other \in issued :
          /\ ClaimsOf(other).userId = ClaimsOf(response.token).userId
          /\ ClaimsOf(other).iat > ClaimsOf(response.token).iat

(***************************************************************************)
(* Registration and login (api/auth.ts) in a process that is started on an *)
(* empty database, with or without a signing secret and with registration  *)
(* open or closed.  register reads the users table (findByUsername) and    *)
(* writes it (create) on either side of `await Bun.password.hash`, so it   *)
(* is two actions; other register calls and logins run in between.         *)
(***************************************************************************)
\* register calls that may be suspended at `await Bun.password.hash` at once
MaxRegistering == 2

Letters ==
    {"a", "b", "c", "d", "e", "f", "g", "h", "i", "j", "k", "l", "m",
     "n", "o", "p", "q", "r", "s", "t", "u", "v", "w", "x", "y", "z",
     "A", "B", "C", "D", "E", "F", "G", "H", "I", "J", "K", "L", "M",
     "N", "O", "P", "Q", "R", "S", "T", "U", "V", "W", "X", "Y", "Z"}

\* faulty variant: one character fewer than the pattern allows
isValidUsernameUpTo19(username) ==
    /\ Len(username) >= 3 /\ Len(username) <= 19
    /\ \A i \in 1..Len(username) :
          username[i] \in Letters \/ IsDigit(username[i]) \/ username[i] = "_"

\* /^[a-zA-Z0-9_]{3,20}$/.test(username)
isValidUsername(username) ==
    /\ Len(username) >= 3 /\ Len(username) <= 20
    /\ \A i \in 1..Len(username) :
          username[i] \in Letters \/ IsDigit(username[i]) \/ username[i] = "_"

\* password.length >= 6
isValidPassword(password) == Len(password) >= 6

\* faulty variant: the hash covers the first six characters only
passwordHashOfPrefix(password) ==
    [argon2id |-> SubSeq(password, 1, IF Len(password) < 6 THEN Len(password) ELSE 6)]

\* Bun.password.hash(password, { algorithm: "argon2id" }): a value only
\* passwordVerify relates to the password
passwordHash(password) == [argon2id |-> password]

\* faulty variant: a users table without the UNIQUE constraint
userCreateUnconstrained(username, password_hash) ==
    LET row == [id |-> Cardinality(users) + 1, username |-> username,
                password_hash |-> password_hash]
    IN [threw |-> FALSE, table |-> users \cup {row}, row |-> row]

\* userQueries.create: INSERT INTO users ... RETURNING *, on a table whose
\* username column is UNIQUE; id is AUTOINCREMENT and no row is ever
\* deleted.  The statement throws when the constraint fails.
userCreate(username, password_hash) ==
    LET row == [id |-> Cardinality(users) + 1, username |-> username,
                password_hash |-> password_hash]
    IN IF \E u \in users : u.username = username
       THEN [threw |-> TRUE, table |-> users, row |-> NULL]
       ELSE [threw |-> FALSE, table |-> users \cup {row}, row |-> row]

\* a response of register: `input` is the body the client sent, `read`
\* whether the handler got as far as req.json()
Registered(input, read, res) ==
    [op |-> "register", input |-> input, read |-> read, at |-> now,
     code |-> res.code, body |-> res.body]

\* faulty variant: the flag is looked at once the body is parsed
registerRefusalReadsFirst(body) ==
    IF ~body.json THEN Registered(body, TRUE, InternalServerError)
    ELSE IF ~REGISTRATION_ENABLED
    THEN Registered(body, TRUE, Json(403, [error |-> "Registration is currently disabled"]))
    ELSE IF body.username = <<>> \/ body.password = <<>>
              \/ body.username[1] = <<>> \/ body.password[1] = <<>>
    THEN Registered(body, TRUE, Json(400, [error |-> "Username and password are required"]))
    ELSE IF ~isValidUsername(body.username[1])
    THEN Registered(body, TRUE,
             Json(400, [error |-> "Username must be 3-20 characters (letters, numbers, underscores only)"]))
    ELSE IF ~isValidPassword(body.password[1])
    THEN Registered(body, TRUE, Json(400, [error |-> "Password must be at least 6 characters"]))
    ELSE IF findByUsername(body.username[1]) # NULL
    THEN Registered(body, TRUE, Json(409, [error |-> "Username already exists"]))
    ELSE NULL

\* register, up to `await Bun.password.hash`: NULL when the call goes on
registerRefusal(body) ==
    IF ~REGISTRATION_ENABLED
    THEN Registered(body, FALSE, Json(403, [error |-> "Registration is currently disabled"]))
    ELSE IF ~body.json THEN Registered(body, TRUE, InternalServerError)
    ELSE IF body.username = <<>> \/ body.password = <<>>
              \/ body.username[1] = <<>> \/ body.password[1] = <<>>
    THEN Registered(body, TRUE, Json(400, [error |-> "Username and password are required"]))
    ELSE IF ~isValidUsername(body.username[1])
    THEN Registered(body, TRUE,
             Json(400, [error |-> "Username must be 3-20 characters (letters, numbers, underscores only)"]))
    ELSE IF ~isValidPassword(body.password[1])
    THEN Registered(body, TRUE, Json(400, [error |-> "Password must be at least 6 characters"]))
    ELSE IF findByUsername(body.username[1]) # NULL
    THEN Registered(body, TRUE, Json(409, [error |-> "Username already exists"]))
    ELSE NULL

RegisterBegin(body) ==
    LET refusal == registerRefusal(body)
    IN /\ IF refusal # NULL
          THEN response' = refusal /\ UNCHANGED pending
          ELSE /\ pending' = pending (+) SetToBag({[op |-> "register", body |-> body]})
               /\ UNCHANGED response
       /\ UNCHANGED <<users, essays, seq, now, issued, localStorage, process, generator, terminal, authState>>

\* register, from the hash on: the insert, the token, the response; an
\* insert that throws is caught by the handler's catch
RegisterFinish(call) ==
    LET created == userCreate(call.body.username[1], passwordHash(call.body.password[1]))
        user == created.row
        token == createToken(user.id, user.username, now)
    IN /\ pending' = pending (-) SetToBag({call})
       /\ users' = created.table
       /\ IF created.threw
          THEN /\ response' = Registered(call.body, TRUE, InternalServerError)
               /\ UNCHANGED issued
          ELSE /\ response' = Registered(call.body, TRUE,
                      Json(200, [message |-> "Registration successful", token |-> token,
                                 user |-> [id |-> user.id, username |-> user.username]]))
               /\ issued' = issued \cup {token}
       /\ UNCHANGED <<essays, seq, now, localStorage, process, generator, terminal, authState>>

\* faulty variant: the server starts whatever the environment holds
StartupUnchecked ==
    /\ process.status = "starting"
    /\ process' = Serving(process.env)
    /\ UNCHANGED <<users, essays, seq, now, pending, response, issued, localStorage, generator, terminal, authState>>

\* jwt.ts at module load, then index.ts: without a secret process.exit(1),
\* else Bun.serve
Startup ==
    /\ process.status = "starting"
    /\ process' = IF JWT_SECRET = "" THEN [process EXCEPT !.status = "exited"]
                  ELSE Serving(process.env)
    /\ UNCHANGED <<users, essays, seq, now, pending, response, issued, localStorage, generator, terminal, authState>>

Listening == process.status = "serving"

name2 == <<"a", "l">>
name20 == <<"a", "_", "2", "0", "_", "c", "h", "a", "r", "a", "c", "t", "e", "r", "_",
            "N", "a", "m", "e", "9">>
name21 == name20 \o <<"x">>
hyphenated == <<"a", "-", "b">>
pass5 == <<"s", "e", "c", "r", "e">>
pass6 == <<"s", "e", "c", "r", "e", "t">>

RegisterBodies ==
    {BadJson, Credentials(<<>>, <<pass6>>), Credentials(<<bob>>, <<>>),
     Credentials(<<bob>>, <<pass6>>), Credentials(<<bob>>, <<secret1>>),
     Credentials(<<name20>>, <<pass6>>), Credentials(<<name2>>, <<pass6>>),
     Credentials(<<name21>>, <<pass6>>), Credentials(<<hyphenated>>, <<pass6>>),
     Credentials(<<bob>>, <<pass5>>)}

AuthLoginBodies ==
    {BadJson, Credentials(<<>>, <<pass6>>), Credentials(<<bob>>, <<>>),
     Credentials(<<bob>>, <<pass6>>), Credentials(<<bob>>, <<secret1>>),
     Credentials(<<name20>>, <<pass6>>), Credentials(<<carol>>, <<pass6>>)}

\* a process about to load its modules, on a database that is empty or
\* holds one account of an earlier run
InitAuth ==
    /\ users \in {{}, {[id |-> 1, username |-> bob, password_hash |-> passwordHash(pass6)]}}
    /\ essays = {}
    /\ seq = 0
    /\ now = 0
    /\ pending = EmptyBag
    /\ response = NULL
    /\ issued = {}
    /\ localStorage = NULL
    /\ process \in {[status |-> "starting", env |-> Env(secret, registration)] :
                       secret \in {"", "server-secret"}, registration \in {"", "false"}}
    /\ generator = NULL
    /\ terminal = useTerminal
    /\ authState = useAuth

NextAuth ==
    \/ Startup
    \/ Idle /\ Listening /\ BagCardinality(pending) < MaxRegistering
            /\ \E b \in RegisterBodies : RegisterBegin(b)
    \/ Idle /\ Listening /\ \E call \in BagToSet(pending) : RegisterFinish(call)
    \/ Idle /\ Listening /\ \E b \in AuthLoginBodies : Login(b)
    \/ Receive

SpecAuth == InitAuth /\ [][NextAuth]_vars

(***************************************************************************)
(* Properties of registration and login.                                   *)
(***************************************************************************)
\* a register response appears in this step
RegisterAnswers ==
    response = NULL /\ response' # NULL /\ response'.op = "register"

\* a JSON body with both fields, a name of 3 to 20 letters, digits or
\* underscores and a password of at least 6 characters
WordCharacters == Letters \cup {Digits[i] : i \in DOMAIN Digits} \cup {"_"}

GoodName(name) ==
    Len(name) \in 3..20 /\ {name[i] : i \in DOMAIN name} \subseteq WordCharacters

Complete(body) ==
    /\ body.json
    /\ body.username # <<>> /\ body.password # <<>>

ValidPair(body) ==
    /\ Complete(body)
    /\ GoodName(body.username[1])
    /\ Len(body.password[1]) >= 6

Stored(name) == \E u \in users : u.username = name

\* C21: in every reachable state at most one account exists per username,
\* also after two register calls for the same new name both passed the
\* existence check before either inserted.
C21_UniqueUsername ==
    \A u, v \in users : u.username = v.username => u = v

\* two calls for bob passed the check; one inserted, the other was answered
\* after its insert
C21_Witness ==
    /\ response # NULL
    /\ response.op = "register"
    /\ response.code = 500
    /\ ValidPair(response.input)
    /\ \E u \in users :
          /\ u.username = response.input.username[1]
          /\ u.password_hash # passwordHash(response.input.password[1])

\* C22: a register request with a valid pair whose username is stored when
\* the request is answered -- at the existence check, or at the insert for
\* the loser of two concurrent registrations -- is answered 409 and leaves
\* the users table as it was.
C22_DuplicateRejected ==
    [][(RegisterAnswers /\ REGISTRATION_ENABLED /\ ValidPair(response'.input)
          /\ Stored(response'.input.username[1]))
       => (response'.code = 409 /\ users' = users)]_vars

LoginAnswers ==
    response = NULL /\ response' # NULL /\ response'.op = "login"

\* the token verifies now and its claims name this account
NamesAccount(token, id, name) ==
    LET payload == verifyToken(token, now)
    IN payload # NULL /\ payload.userId = id /\ payload.username = name

\* C23: register with a valid pair whose name is not stored when the account
\* is created answers 200 and creates the account whose id it returns, and
\* every later login with that name and password answers 200; both return a
\* token whose verified claims carry the name and that id.
C23_RegisterThenLogin ==
    [][/\ (RegisterAnswers /\ REGISTRATION_ENABLED /\ ValidPair(response'.input)
             /\ ~Stored(response'.input.username[1]))
          => /\ response'.code = 200
             /\ response'.body.user.username = response'.input.username[1]
             /\ users' = users \cup
                   {[id |-> response'.body.user.id,
                     username |-> response'.input.username[1],
                     password_hash |-> passwordHash(response'.input.password[1])]}
             /\ response'.body.user.id \notin {u.id : u \in users}
             /\ NamesAccount(response'.body.token, response'.body.user.id,
                             response'.input.username[1])
       /\ (LoginAnswers /\ Complete(response'.input))
          => \A u \in users :
                (/\ u.username = response'.input.username[1]
                 /\ u.password_hash = passwordHash(response'.input.password[1]))
                => /\ response'.code = 200
                   /\ response'.body.user = [id |-> u.id, username |-> u.username]
                   /\ NamesAccount(response'.body.token, u.id, u.username)]_vars

\* the browser holds the token of the registration of the 20-character
\* name, the second account, and a login with the same pair is answered
C23_Witness ==
    /\ response # NULL
    /\ response.op = "login"
    /\ response.code = 200
    /\ response.input = Credentials(<<name20>>, <<pass6>>)
    /\ localStorage # NULL
    /\ localStorage \in issued
    /\ NamesAccount(localStorage, 2, name20)
    /\ NamesAccount(response.body.token, 2, name20)

Disabled == process.env.REGISTRATION_ENABLED = "false"

\* C24: with registration disabled every register request is answered 403
\* without its body having been read -- whatever the body -- and no step
\* creates an account or leaves a register call under way.
C24_DisabledAnswers403 ==
    [][Disabled =>
          /\ users' = users
          /\ pending' = pending
          /\ RegisterAnswers =>
                /\ response'.code = 403
                /\ response'.body = [error |-> "Registration is currently disabled"]
                /\ ~response'.read]_vars

\* a body that is not JSON is answered 403 by the closed service, unread
C24_Witness ==
    /\ Disabled
    /\ response # NULL
    /\ response.op = "register"
    /\ response.input = BadJson
    /\ response.code = 403
    /\ ~response.read
    /\ Stored(bob)

\* C25: with registration open, a register request whose JSON body lacks a
\* name of 3 to 20 letters, digits or underscores or a password of at least
\* 6 characters is answered 400, creates no account and issues no token;
\* one with such a name and password is never answered 400, a name of
\* length 3 or 20 and a password of length 6 included.
C25_RegisterValidation ==
    [][(RegisterAnswers /\ REGISTRATION_ENABLED /\ response'.input.json) =>
          IF ValidPair(response'.input)
          THEN response'.code # 400
          ELSE /\ response'.code = 400
               /\ DOMAIN response'.body = {"error"}
               /\ users' = users
               /\ issued' = issued
               /\ pending' = pending]_vars

\* the registration of the 3-character name with the 6-character password
\* is answered 200 after the 20-character name was registered
C25_Witness ==
    /\ response # NULL
    /\ response.op = "register"
    /\ response.code = 200
    /\ Len(response.input.username[1]) = 3
    /\ Len(response.input.password[1]) = 6
    /\ response.body.user.id = 2
    /\ \E u \in users :
          /\ u.id = 1
          /\ Len(u.username) = 20
          /\ Len(u.password_hash.argon2id) = 6

Missing(field) == field = <<>> \/ field[1] = <<>>

\* the account the credentials of a login body belong to, if any
AccountOf(body) ==
    {u \in users : /\ u.username = body.username[1]
                   /\ u.password_hash = passwordHash(body.password[1])}

\* C26: login with a JSON body answers 400 when the name or the password is
\* missing, 401 when no account has the name or the password is not the
\* account's, and 200 with a token for the account otherwise; every 401 has
\* the same body, whether the name is registered or not.
C26_LoginOutcomes ==
    (response # NULL /\ response.op = "login" /\ response.input.json) =>
        IF Missing(response.input.username) \/ Missing(response.input.password)
        THEN response.code = 400
        ELSE IF AccountOf(response.input) = {}
        THEN /\ response.code = 401
             /\ response.body = [error |-> "Invalid username or password"]
        ELSE /\ response.code = 200
             /\ response.body.token \in issued
             /\ \E u \in AccountOf(response.input) :
                   NamesAccount(response.body.token, u.id, u.username)

\* bob is registered and a login as bob with another password is answered
\* 401
C26_Witness ==
    /\ response # NULL
    /\ response.op = "login"
    /\ response.code = 401
    /\ response.input = Credentials(<<bob>>, <<secret1>>)
    /\ Stored(bob)
    /\ response.body = [error |-> "Invalid username or password"]

(***************************************************************************)
(* The route table (Spec).                                                 *)
(***************************************************************************)
ProtectedOps ==
    {"getUserEssays", "createEssay", "updateEssay", "publishEssay",
     "unpublishEssay", "deleteEssay"}

PublicOps == {"getPublishedEssays", "getEssay"}

\* the two answers of requireAuth
Refusals ==
    {[error |-> "Authentication required"], [error |-> "Invalid or expired token"]}

\* C27: a request to create, update, publish, unpublish, delete or list
\* one's own essays that carries no valid token is answered 401 by the
\* middleware: the handler has looked nothing up and written nothing, and
\* the store and the updates under way are as before.  Only the public
\* listing and the read of one essay answer a caller without identity, and
\* every update under way and every stored essay belongs to a verified
\* caller.
C27_RoutesBehindRequireAuth ==
    [][/\ (response = NULL /\ response' # NULL /\ ~response'.req.authenticated) =>
             IF response'.op \in ProtectedOps
             THEN /\ response'.code = 401
                  /\ response'.body \in Refusals
                  /\ response'.id = 0
                  /\ response'.input = NULL
                  /\ response'.existing = NULL
                  /\ response'.changes = <<>>
                  /\ UNCHANGED <<users, essays, seq, pending>>
             ELSE response'.op \in PublicOps /\ response'.code # 401
       /\ \A call \in BagToSet(pending') : call.req.authenticated
       /\ \A e \in essays' : \E u \in users' : u.id = e.user_id]_vars

\* a delete without a valid token is answered 401 while bob's published
\* essay stays stored
C27_Witness ==
    /\ Answered("deleteEssay")
    /\ ~response.req.authenticated
    /\ response.code = 401
    /\ \E e \in essays : e.user_id = 2 /\ e.status = "published"

(***************************************************************************)
(* Startup (SpecAuth).                                                     *)
(***************************************************************************)
NoSecret == process.env.JWT_SECRET = ""

\* C28: a process started without a signing secret never serves: its only
\* step is the exit during module load, no request is answered or under
\* way and no token is issued or held.
C28_NoSecretNoService ==
    /\ [](NoSecret =>
             /\ process.status \in {"starting", "exited"}
             /\ response = NULL
             /\ pending = EmptyBag
             /\ issued = {}
             /\ localStorage = NULL)
    /\ [][NoSecret =>
             /\ process.status = "starting"
             /\ process'.status = "exited"
             /\ UNCHANGED <<users, essays, seq, pending, response, issued, localStorage, generator, terminal, authState>>]_vars

\* the process without a secret has exited, registration open or not
C28_Witness ==
    /\ NoSecret
    /\ process.status = "exited"
    /\ process.env.REGISTRATION_ENABLED = ""

(***************************************************************************)
(* generateUniqueShortId (db/index.ts, the short_id generation of the      *)
(* schema).  The function is synchronous: the essays table does not change *)
(* while it loops.  Each evaluation of the loop condition is a step, so    *)
(* that the number of steps a call takes is something the model can count. *)
(***************************************************************************)
maxAttempts == 100

\* values of generateShortId(): three of the 62^3 strings
ShortIds == {"abc", "abd", "xyz"}

\* SELECT COUNT(*) as count FROM essays WHERE short_id = ?
checkExists(id) == [count |-> Cardinality({e \in essays : e.short_id = id})]

\* checkExists.get(id)?.count ?? 0 > 0, which JavaScript reads as
\* count ?? (0 > 0): the count itself, truthy when it is not 0
whileCondition(id) == checkExists(id).count # 0

\* let id = generateShortId(); let attempts = 0;
GenerateUniqueShortId ==
    /\ generator = NULL
    /\ \E id \in ShortIds :
          generator' = [id |-> id, attempts |-> 0, status |-> "looping"]
    /\ UNCHANGED <<users, essays, seq, now, pending, response, issued, localStorage, process,
                   terminal, authState>>

\* one evaluation of the while condition and, when it is true, of the body:
\* a new candidate, attempts++, the throw at maxAttempts
Iterate ==
    /\ generator # NULL
    /\ generator.status = "looping"
    /\ IF whileCondition(generator.id)
       THEN \E id \in ShortIds :
               generator' = [id |-> id, attempts |-> generator.attempts + 1,
                             status |-> IF generator.attempts + 1 >= maxAttempts
                                        THEN "threw" ELSE "looping"]
       ELSE generator' = [generator EXCEPT !.status = "returned"]
    /\ UNCHANGED <<users, essays, seq, now, pending, response, issued, localStorage, process,
                   terminal, authState>>

\* the caller has the id or the error
Returned ==
    /\ generator # NULL
    /\ generator.status \in {"returned", "threw"}
    /\ generator' = NULL
    /\ UNCHANGED <<users, essays, seq, now, pending, response, issued, localStorage, process,
                   terminal, authState>>

\* a row of the essays table of the short_id schema
ShortRow(n, short_id) ==
    [id |-> n, short_id |-> short_id, user_id |-> 1, title |-> <<"H", "i">>,
     content |-> Str("Body", 4), status |-> "draft", created_at |-> 0, updated_at |-> 0]

\* the table holds none, some or all of the ids the generator can draw
InitShortId ==
    /\ users = Accounts
    /\ essays \in {{}, {ShortRow(1, "abc")}, {ShortRow(1, "abc"), ShortRow(2, "abd")},
                   {ShortRow(1, "abc"), ShortRow(2, "abd"), ShortRow(3, "xyz")}}
    /\ seq = Cardinality(essays)
    /\ now = 0
    /\ pending = EmptyBag
    /\ response = NULL
    /\ issued = {}
    /\ localStorage = NULL
    /\ process = Serving(Configured)
    /\ generator = NULL
    /\ terminal = useTerminal
    /\ authState = useAuth

NextShortId ==
    \/ GenerateUniqueShortId
    \/ Iterate
    \/ Returned

\* the loop is synchronous code: once called it runs on
SpecShortId == InitShortId /\ [][NextShortId]_vars /\ WF_vars(Iterate)

Colliding(id) == \E e \in essays : e.short_id = id

Looping == generator # NULL /\ generator.status = "looping"

Ended == generator # NULL /\ generator.status \in {"returned", "threw"}

\* C29: a call of generateUniqueShortId ends; it returns only an id no
\* stored essay has; it throws only after 100 regenerated candidates, all of
\* which collided; it regenerates at most 100 times.
C29_ShortIdTerminates ==
    /\ [](generator # NULL =>
             /\ generator.attempts <= maxAttempts
             /\ generator.status = "returned" => ~Colliding(generator.id)
             /\ generator.status = "threw" =>
                   generator.attempts = maxAttempts /\ Colliding(generator.id))
    /\ (Looping ~> Ended)

\* C30: a request of register, login, createEssay or updateEssay whose body
\* is not JSON, lacks a required field, or carries an invalid name, a short
\* password, an empty title or over-long content is answered 400.
C30_BadInputAnswers400 ==
    response # NULL =>
        /\ (response.op = "login"
              /\ (~response.input.json \/ Missing(response.input.username)
                     \/ Missing(response.input.password)))
           => response.code = 400
        /\ (response.op = "register" /\ response.read /\ ~ValidPair(response.input))
           => response.code = 400
        /\ (response.op = "createEssay" /\ response.input # NULL
              /\ ~Acceptable(response.input))
           => response.code = 400
        /\ (response.op = "updateEssay" /\ response.input # NULL
              /\ (~response.input.json
                     \/ (/\ response.input.content # <<>>
                         /\ response.input.content[1].length > MAX_ESSAY_LENGTH)))
           => response.code = 400

(***************************************************************************)
(* Exceptions.  The model's handlers throw where req.json() is given a     *)
(* body that is not JSON and where the INSERT of register fails on the     *)
(* UNIQUE constraint.                                                      *)
(***************************************************************************)
\* req.json() threw in the handler that gave the response
JsonThrew(res) ==
    /\ res.op \in {"register", "login", "createEssay", "updateEssay"}
    /\ res.input # NULL
    /\ ~res.input.json
    /\ res.op = "register" => res.read

\* this step is the insert of a register call whose username is stored
InsertThrows ==
    /\ RegisterAnswers
    /\ pending' # pending
    /\ Stored(response'.input.username[1])

\* the bodies the handlers give a 500
FixedBodies ==
    {[error |-> "Internal server error"], [error |-> "Failed to create user"],
     [error |-> "Failed to create essay"], [error |-> "Failed to update essay"],
     [error |-> "Failed to publish essay"], [error |-> "Failed to unpublish essay"]}

\* C31: a request whose handler throws -- req.json() on a body that is not
\* JSON, the INSERT of a register call on a stored username -- is answered
\* 500 {error: "Internal server error"}, and every 500 has one of the
\* handlers' fixed bodies.
C31_ExceptionsAnswered500 ==
    [][(response = NULL /\ response' # NULL /\ "code" \in DOMAIN response') =>
          /\ (JsonThrew(response') \/ InsertThrows) =>
                /\ response'.code = 500
                /\ response'.body = [error |-> "Internal server error"]
          /\ response'.code = 500 => response'.body \in FixedBodies]_vars

\* the second of two concurrent registrations of the 20-character name is
\* answered after its insert threw
C31_Witness ==
    /\ response # NULL
    /\ response.op = "register"
    /\ response.read
    /\ response.input = Credentials(<<name20>>, <<pass6>>)
    /\ response.code = 500
    /\ response.body = [error |-> "Internal server error"]
    /\ Stored(name20)

\* the response carries a token
CarriesToken(res) == "body" \in DOMAIN res /\ "token" \in DOMAIN res.body

\* C32: a token leaves the server only in the 200 response of a register or
\* login call whose body holds a name and a password, and its claims are
\* the id and username of the account that has this name and the hash of
\* this password; no other step issues a token.
C32_TokenOnlyForPresentedCredentials ==
    [][/\ issued' # issued =>
             /\ response = NULL /\ response' # NULL
             /\ CarriesToken(response')
             /\ issued' = issued \cup {response'.body.token}
       /\ (response' # response /\ response' # NULL /\ CarriesToken(response')) =>
             /\ response'.op \in {"register", "login"}
             /\ response'.code = 200
             /\ Complete(response'.input)
             /\ response'.body.token \in issued'
             /\ \E u \in users' :
                   /\ u.username = response'.input.username[1]
                   /\ u.password_hash = passwordHash(response'.input.password[1])
                   /\ ClaimsOf(response'.body.token).userId = u.id
                   /\ ClaimsOf(response'.body.token).username = u.username
                   /\ response'.body.user = [id |-> u.id, username |-> u.username]
                   /\ response'.op = "register" => u \notin users]_vars

\* a login as the second account, bob, is answered with a token for id 2
\* while the 20-character name holds id 1
C32_Witness ==
    /\ response # NULL
    /\ response.op = "login"
    /\ response.code = 200
    /\ ClaimsOf(response.body.token) = Claims(2, bob, now)
    /\ response.input.username = <<bob>>
    /\ \E u \in users : u.id = 1 /\ u.username = name20

(***************************************************************************)
(* Frame conditions.                                                       *)
(***************************************************************************)
Refused == {400, 401, 403, 404, 409}

\* C33: the step that answers a request with 400, 401, 403, 404 or 409
\* leaves the users table, the essays table and the id counter as they
\* were, and the only steps that change a table are those that answer 200
\* or 201.
C33_RefusedChangesNothing ==
    [][/\ (response = NULL /\ response' # NULL /\ "code" \in DOMAIN response'
             /\ response'.code \in Refused)
          => UNCHANGED <<users, essays, seq>>
       /\ (users' # users \/ essays' # essays \/ seq' # seq)
          => /\ response = NULL /\ response' # NULL
             /\ response'.code \in {200, 201}]_vars

\* an update of a stored essay is refused for its over-long content after
\* it was suspended, and the essay is as the update's first read found it
C33_Witness ==
    /\ Answered("updateEssay")
    /\ response.code = 400
    /\ response.input # NULL
    /\ response.input.json
    /\ response.input.content # <<>>
    /\ response.input.content[1].length > MAX_ESSAY_LENGTH
    /\ \E e \in essays :
          /\ e.id = response.id
          /\ e.title = response.existing.title
          /\ e.content = response.existing.content

(***************************************************************************)
(* Updates of one essay by its owner, two of which may be under way at     *)
(* once, between publishes and unpublishes (SpecUpdate).                   *)
(***************************************************************************)
\* updateEssay calls of SpecUpdate that may be suspended at once
MaxUpdating == 2

New == <<"N", "e", "w">>

UpdateBodies ==
    {Body(<<>>, <<>>), Body(<<New>>, <<>>), Body(<<>>, <<Str("Changed", 7)>>),
     Body(<<New>>, <<Str("Changed", 7)>>)}

NextUpdate ==
    \/ Idle /\ BagCardinality(pending) < MaxUpdating /\ UpdateEssayBegin(Alice, <<"1">>)
    \/ Idle /\ \E call \in BagToSet(pending), b \in UpdateBodies : UpdateEssayFinish(call, b)
    \/ Idle /\ PublishEssay(Alice, <<"1">>)
    \/ Idle /\ UnpublishEssay(Alice, <<"1">>)
    \/ now < MaxTime /\ Tick
    \/ Deliver

SpecUpdate == InitToken /\ [][NextUpdate]_vars

\* this step answers op with 200
Succeeds(op) ==
    response = NULL /\ response' # NULL /\ response'.op = op /\ response'.code = 200

\* the row with this id before and after the step
Before(id) == CHOOSE e \in essays : e.id = id

After(id) == CHOOSE e \in essays' : e.id = id

\* C34: a successful update changes only title, content and update time of
\* its row, and a field its body omits keeps the value the row has in the
\* table when the UPDATE runs; a successful publish or unpublish changes
\* only status and update time; id and owner never change.
C34_OwnerOperationFrames ==
    [][/\ Succeeds("updateEssay") =>
             LET id == response'.id
                 body == response'.input
             IN /\ \E e \in essays : e.id = id
                /\ essays' = (essays \ {Before(id)}) \cup {After(id)}
                /\ After(id).user_id = Before(id).user_id
                /\ After(id).status = Before(id).status
                /\ body.title = <<>> => After(id).title = Before(id).title
                /\ body.content = <<>> => After(id).content = Before(id).content
       /\ (Succeeds("publishEssay") \/ Succeeds("unpublishEssay")) =>
             LET id == response'.id
             IN /\ \E e \in essays : e.id = id
                /\ essays' = (essays \ {Before(id)}) \cup {After(id)}
                /\ After(id).user_id = Before(id).user_id
                /\ After(id).title = Before(id).title
                /\ After(id).content = Before(id).content]_vars

\* the string is empty once trimmed
Blank(s) == Len(trim(s)) = 0

\* this step answers a suspended update whose row is still stored
UpdateAnswers ==
    /\ response = NULL /\ response' # NULL
    /\ response'.op = "updateEssay"
    /\ response'.input # NULL /\ response'.input.json
    /\ \E e \in essays : e.id = response'.id /\ e.user_id = response'.req.userId

\* C35: an update by the owner whose body supplies a title that is empty
\* after trimming is answered 400 and leaves the essays table as it was,
\* and no stored essay ever has a title that is empty after trimming.
C35_BlankTitleRefused ==
    /\ [](\A e \in essays : ~Blank(e.title))
    /\ [][(UpdateAnswers /\ response'.input.title # <<>>
             /\ Blank(response'.input.title[1]))
          => (response'.code = 400 /\ essays' = essays)]_vars

\* C36: no stored essay has empty content, whatever creates and updates
\* were answered; createEssay answers 400 to missing or empty content.
C36_ContentNeverEmpty ==
    /\ \A e \in essays : e.content.length > 0
    /\ (Answered("createEssay") /\ response.input # NULL /\ response.input.json
          /\ (response.input.content = <<>> \/ response.input.content[1].length = 0))
       => response.code = 400

(***************************************************************************)
(* The terminal: hooks/useTerminal, components/TerminalInput and           *)
(* hooks/useAuth in the browser, and the server above that answers them.   *)
(* Of the commands, login, register, logout and delete are modelled, and   *)
(* words that are no command.                                              *)
(***************************************************************************)
\* output lines after which no more input is typed
MaxLines == 9

\* String.prototype.toLowerCase
RECURSIVE toLowerCase(_)
toLowerCase(s) ==
    LET UpperCase == <<"A", "B", "C", "D", "E", "F", "G", "H", "I", "J", "K", "L", "M",
                       "N", "O", "P", "Q", "R", "S", "T", "U", "V", "W", "X", "Y", "Z">>
        LowerCase == <<"a", "b", "c", "d", "e", "f", "g", "h", "i", "j", "k", "l", "m",
                       "n", "o", "p", "q", "r", "s", "t", "u", "v", "w", "x", "y", "z">>
    IN IF s = <<>> THEN <<>>
       ELSE <<IF \E i \in DOMAIN UpperCase : UpperCase[i] = Head(s)
              THEN LowerCase[CHOOSE i \in DOMAIN UpperCase : UpperCase[i] = Head(s)]
              ELSE Head(s)>> \o toLowerCase(Tail(s))

\* the characters of s before its first white space
RECURSIVE word(_)
word(s) ==
    IF s = <<>> \/ IsSpace(Head(s)) THEN <<>>
    ELSE <<Head(s)>> \o word(Tail(s))

\* s.split(/\s+/)
RECURSIVE split(_)
split(s) ==
    LET first == word(s)
        rest == SubSeq(s, Len(first) + 1, Len(s))
    IN IF rest = <<>> THEN <<first>>
       ELSE <<first>> \o split(trimStart(rest))

TempData(username, id) == [username |-> username, id |-> id]

InputState(mode, tempData) == [mode |-> mode, tempData |-> tempData]

Command == InputState("command", TempData(<<>>, <<>>))

\* addLine
addLine(t, content, value) == [t EXCEPT !.lines = Append(@, Line(content, value))]

\* fetch: the request in flight and the function awaiting it
Fetch(call, method, url, param, authorization, body) ==
    [call |-> call, method |-> method, url |-> url, param |-> param,
     authorization |-> authorization, body |-> body]

\* authFetch: the Authorization header of the token the storage holds
authFetch(call, method, url, param) ==
    Fetch(call, method, url, param,
          IF localStorage = NULL THEN NULL ELSE Header("Bearer ", localStorage), NULL)

\* faulty variant: the password is echoed
passwordLineEchoed(t, input) == addLine(t, "Password: ", input)

\* addLine("Password: ********", "muted")
passwordLine(t, input) == addLine(t, "Password: ********", <<>>)

\* faulty variant: every answer confirms
confirmedByAnyInput(input) == TRUE

\* input.toLowerCase() === "yes" || input.toLowerCase() === "y"
confirmed(input) ==
    toLowerCase(input) = <<"y", "e", "s">> \/ toLowerCase(input) = <<"y">>

\* handleCommand in a mode other than "command", up to its return or its
\* first await
dialogue(t, input) ==
    LET mode == t.inputState.mode
        tempData == t.inputState.tempData
    IN CASE mode = "login_username" ->
              [addLine(addLine(t, "Username: ", input), "Password:", <<>>)
                  EXCEPT !.inputState = InputState("login_password", TempData(<<input>>, <<>>))]
         [] mode = "login_password" ->
              [passwordLine(t, input)
                  EXCEPT !.isProcessing = TRUE,
                         !.awaiting = Fetch("onLogin", "POST", "/api/auth/login", <<>>, NULL,
                                            Credentials(tempData.username, <<input>>))]
         [] mode = "register_username" ->
              [addLine(addLine(t, "Username: ", input), "Password:", <<>>)
                  EXCEPT !.inputState = InputState("register_password", TempData(<<input>>, <<>>))]
         [] mode = "register_password" ->
              [passwordLine(t, input)
                  EXCEPT !.isProcessing = TRUE,
                         !.awaiting = Fetch("onRegister", "POST", "/api/auth/register", <<>>, NULL,
                                            Credentials(tempData.username, <<input>>))]
         [] mode = "confirm_delete" ->
              IF confirmed(input)
              THEN [t EXCEPT !.isProcessing = TRUE,
                             !.awaiting = authFetch("deleteEssay", "DELETE", "/api/essays/",
                                                    tempData.id[1])]
              ELSE [addLine(t, "Delete cancelled", <<>>) EXCEPT !.inputState = Command]

\* handleCommand in mode "command" after the history and the echo: the
\* switch on the command
command(t, input) ==
    LET parts == split(trim(input))
        cmd == toLowerCase(parts[1])
        args == Tail(parts)
        loggedIn == addLine(t, "Already logged in as ", authState.user.username)
    IN CASE cmd = <<"l", "o", "g", "i", "n">> ->
              IF authState.isAuthenticated THEN loggedIn
              ELSE [addLine(t, "Username:", <<>>)
                       EXCEPT !.inputState = InputState("login_username", TempData(<<>>, <<>>))]
         [] cmd = <<"r", "e", "g", "i", "s", "t", "e", "r">> ->
              IF authState.isAuthenticated THEN loggedIn
              ELSE [addLine(t, "Choose a username:", <<>>)
                       EXCEPT !.inputState = InputState("register_username", TempData(<<>>, <<>>))]
         [] cmd = <<"l", "o", "g", "o", "u", "t">> ->
              IF ~authState.isAuthenticated THEN addLine(t, "Not logged in", <<>>)
              ELSE addLine(t, "Logged out", <<>>)
         [] cmd = <<"d", "e", "l", "e", "t", "e">> ->
              IF ~authState.isAuthenticated THEN addLine(t, "Please login first", <<>>)
              ELSE IF args = <<>> \/ args[1] = <<>> THEN addLine(t, "Usage: delete <id>", <<>>)
              ELSE [addLine(t, "Are you sure you want to delete essay #? (yes/no)", args[1])
                       EXCEPT !.inputState = InputState("confirm_delete", TempData(<<>>, <<args[1]>>))]
         [] OTHER -> addLine(t, "Unknown command: . Type 'help' for available commands.", cmd)

\* the logout command of an authenticated user calls onLogout
callsLogout(input) ==
    /\ toLowerCase(split(trim(input))[1]) = <<"l", "o", "g", "o", "u", "t">>
    /\ authState.isAuthenticated

\* handleCommand, up to its return or its first await
handleCommand(input) ==
    LET called == [terminal EXCEPT !.input = input]
    IN IF terminal.inputState.mode # "command"
       THEN /\ terminal' = dialogue(called, input)
            /\ UNCHANGED <<users, essays, seq, now, pending, response, issued, localStorage,
                           process, generator, authState>>
       ELSE /\ terminal' = command(addLine([called EXCEPT !.history = Append(@, input)],
                                           "> ", input), input)
            /\ IF callsLogout(input)
               THEN localStorage' = NULL /\ authState' = useAuth
               ELSE UNCHANGED <<localStorage, authState>>
            /\ UNCHANGED <<users, essays, seq, now, pending, response, issued, process, generator>>

\* TerminalInput's handleSubmit: the trimmed value is handed on when it is
\* not empty and the input is not disabled
handleSubmit(value) ==
    LET trimmed == trim(value)
    IN /\ trimmed # <<>>
       /\ ~terminal.isProcessing
       /\ handleCommand(trimmed)

\* the server takes the request of the terminal
Serve ==
    LET request == terminal.awaiting
        identity == requireAuth(request.authorization, now)
    IN /\ request # NULL
       /\ pending = EmptyBag
       /\ CASE request.call = "onLogin" -> Login(request.body)
            [] request.call = "onRegister" -> RegisterBegin(request.body)
            [] request.call = "deleteEssay" ->
                 IF identity.pass THEN DeleteEssay(identity.req, request.param)
                 ELSE Unauthenticated("deleteEssay", identity)

\* res.ok
ok(res) == 200 <= res.code /\ res.code <= 299

\* data.error || fallback
errorOr(data, fallback) ==
    IF "error" \in DOMAIN data THEN data.error ELSE fallback

\* faulty variant: a failed login or registration returns with the input
\* still disabled and the mode unchanged
settledOnSuccessOnly(t, result, greeting) ==
    IF result.success
    THEN [addLine([t EXCEPT !.isProcessing = FALSE], greeting, t.inputState.tempData.username[1])
             EXCEPT !.inputState = Command, !.awaiting = NULL]
    ELSE [addLine(t, result.error, <<>>) EXCEPT !.awaiting = NULL]

\* handleCommand after `await onLogin` or `await onRegister`
settled(t, result, greeting) ==
    [(IF result.success
      THEN addLine([t EXCEPT !.isProcessing = FALSE], greeting, t.inputState.tempData.username[1])
      ELSE addLine([t EXCEPT !.isProcessing = FALSE], result.error, <<>>))
        EXCEPT !.inputState = Command, !.awaiting = NULL]

\* deleteEssay after its fetch, and handleCommand after `await deleteEssay`
deleted(t, line) ==
    [addLine(t, line.content, line.value)
        EXCEPT !.isProcessing = FALSE, !.inputState = Command, !.awaiting = NULL]

\* what the awaiting function makes of the outcome of its fetch: res is the
\* response, or NULL when fetch threw
Settle(res) ==
    LET call == terminal.awaiting.call
        failed == res = NULL \/ ~ok(res)
        fallback == IF call = "onLogin" THEN "Login failed" ELSE "Registration failed"
        result == IF res = NULL THEN [success |-> FALSE, error |-> "Network error"]
                  ELSE IF ~ok(res) THEN [success |-> FALSE, error |-> errorOr(res.body, fallback)]
                  ELSE [success |-> TRUE]
    IN IF call = "deleteEssay"
       THEN /\ terminal' = deleted(terminal,
                              IF res = NULL THEN Line("Network error", <<>>)
                              ELSE IF ~ok(res)
                              THEN Line(errorOr(res.body, "Failed to delete"), <<>>)
                              ELSE Line("Essay # deleted", terminal.awaiting.param))
            /\ UNCHANGED <<localStorage, authState>>
       ELSE /\ terminal' = settled(terminal, result,
                              IF call = "onLogin" THEN "Welcome back, !"
                              ELSE "Account created! Welcome, !")
            /\ IF failed THEN UNCHANGED <<localStorage, authState>>
               ELSE /\ localStorage' = res.body.token
                    /\ authState' = [user |-> res.body.user, token |-> res.body.token,
                                     isAuthenticated |-> TRUE]

\* the response arrives
Resolve ==
    /\ terminal.awaiting # NULL
    /\ response # NULL
    /\ Settle(response)
    /\ response' = NULL
    /\ UNCHANGED <<users, essays, seq, now, pending, issued, process, generator>>

\* fetch throws: the request or its response is lost
Reject ==
    /\ terminal.awaiting # NULL
    /\ pending = EmptyBag
    /\ Settle(NULL)
    /\ response' = NULL
    /\ UNCHANGED <<users, essays, seq, now, pending, issued, process, generator>>

\* what the user types: commands, with and without an argument, answers in
\* either case and with spaces around them, names, a password and a blank
Values ==
    {<<"l", "o", "g", "i", "n">>, <<"r", "e", "g", "i", "s", "t", "e", "r">>,
     <<"l", "o", "g", "o", "u", "t">>, <<"D", "e", "l", "e", "t", "e", " ", " ", "1">>,
     <<"d", "e", "l", "e", "t", "e">>, <<"y", "e", "s">>, <<" ", "Y", " ">>, <<"n", "o">>,
     alice, <<"c", "a", "r", "o", "l", "6">>, secret1, <<" ">>}

\* the browser's storage when alice logged in before the page was loaded
Persisted == createToken(1, alice, 0)

\* the server some time after alice stored a draft; the page is loaded with
\* or without a persisted login
InitTerminal ==
    /\ users = Accounts
    /\ essays = {[id |-> 1, user_id |-> 1, title |-> <<"H", "i">>,
                  content |-> Str("Body", 4), status |-> "draft", updated_at |-> 0]}
    /\ seq = 1
    /\ now = 0
    /\ pending = EmptyBag
    /\ response = NULL
    /\ process = Serving(Configured)
    /\ generator = NULL
    /\ terminal = useTerminal
    /\ \/ localStorage = NULL /\ issued = {} /\ authState = useAuth
       \/ /\ localStorage = Persisted
          /\ issued = {Persisted}
          /\ authState = [user |-> [id |-> 1, username |-> alice], token |-> Persisted,
                          isAuthenticated |-> TRUE]

NextTerminal ==
    \/ Len(terminal.lines) < MaxLines /\ \E value \in Values : handleSubmit(value)
    \/ Idle /\ Serve
    \/ Idle /\ \E call \in BagToSet(pending) : RegisterFinish(call)
    \/ Resolve
    \/ Reject

SpecTerminal ==
    InitTerminal /\ [][NextTerminal]_vars
        /\ WF_vars((Idle /\ Serve) \/ (\E call \in BagToSet(pending) : Idle /\ RegisterFinish(call))
                   \/ Resolve)

(***************************************************************************)
(* Properties of the terminal.                                             *)
(***************************************************************************)
Mode == terminal.inputState.mode

\* handleCommand is called in this step
Called == terminal.awaiting = NULL /\ terminal' # terminal

\* the function awaiting a fetch is resumed in this step
Resumed(calls) ==
    /\ terminal.awaiting # NULL
    /\ terminal.awaiting.call \in calls
    /\ terminal'.awaiting = NULL

\* a DELETE request leaves the browser in this step
SendsDelete ==
    /\ terminal.awaiting = NULL
    /\ terminal'.awaiting # NULL
    /\ terminal'.awaiting.method = "DELETE"

Affirmative(input) == toLowerCase(input) \in {<<"y", "e", "s">>, <<"y">>}

LastLine == terminal.lines[Len(terminal.lines)]

\* C37: a DELETE request is sent only from confirm_delete mode, on an
\* affirmative answer and for the id kept since the command; that mode is
\* entered only by 'delete <id>' of an authenticated user in command mode and
\* keeps its id; every other answer sends nothing; and the mode is "command"
\* after the answer or, when a request was sent, after its outcome.
C37_DeleteOnlyAfterConfirmation ==
    [][/\ SendsDelete =>
             /\ Mode = "confirm_delete"
             /\ Affirmative(terminal'.input)
             /\ terminal'.awaiting.url = "/api/essays/"
             /\ <<terminal'.awaiting.param>> = terminal.inputState.tempData.id
       /\ (Mode # "confirm_delete" /\ terminal'.inputState.mode = "confirm_delete") =>
             /\ Mode = "command"
             /\ authState.isAuthenticated
             /\ Len(split(terminal'.input)) >= 2
             /\ toLowerCase(split(terminal'.input)[1]) = <<"d", "e", "l", "e", "t", "e">>
             /\ terminal'.inputState.tempData.id = <<split(terminal'.input)[2]>>
       /\ (Mode = "confirm_delete" /\ terminal'.inputState.mode = "confirm_delete") =>
             terminal'.inputState = terminal.inputState
       /\ (Called /\ Mode = "confirm_delete" /\ ~Affirmative(terminal'.input)) =>
             /\ terminal'.awaiting = NULL
             /\ terminal'.inputState.mode = "command"
       /\ Resumed({"deleteEssay"}) => terminal'.inputState.mode = "command"]_vars

\* alice's essay 1 is gone after 'delete 1' and an affirmative answer
C37_Witness ==
    /\ essays = {}
    /\ terminal.awaiting = NULL
    /\ Affirmative(terminal.input)
    /\ LastLine = Line("Essay # deleted", <<"1">>)
    /\ Mode = "command"

Moves ==
    {<<"command", "login_username">>, <<"login_username", "login_password">>,
     <<"login_password", "command">>, <<"command", "register_username">>,
     <<"register_username", "register_password">>, <<"register_password", "command">>,
     <<"command", "confirm_delete">>, <<"confirm_delete", "command">>}

PasswordModes == {"login_password", "register_password"}

\* the password was submitted and its request is not settled
PasswordSubmitted == Mode \in PasswordModes /\ terminal.awaiting # NULL

Ready == Mode = "command" /\ ~terminal.isProcessing

\* C38: the mode changes only along command -> login_username ->
\* login_password -> command, the same for register, and command ->
\* confirm_delete -> command; a password mode is left only when its request
\* is settled; when it is settled, with success or failure, the mode is
\* "command" and isProcessing is false; and every submitted password leads
\* there.
C38_DialogueReturnsToCommand ==
    /\ [][/\ terminal'.inputState.mode # Mode => <<Mode, terminal'.inputState.mode>> \in Moves
          /\ (Mode \in PasswordModes /\ terminal'.inputState.mode # Mode) =>
                Resumed({"onLogin", "onRegister"})
          /\ Resumed({"onLogin", "onRegister"}) =>
                /\ terminal'.inputState.mode = "command"
                /\ ~terminal'.isProcessing]_vars
    /\ [](terminal.isProcessing <=> terminal.awaiting # NULL)
    /\ (PasswordSubmitted ~> Ready)

\* a login with a wrong password was refused and the terminal takes commands
C38_Witness ==
    /\ Ready
    /\ terminal.awaiting = NULL
    /\ LastLine = Line("Invalid username or password", <<>>)
    /\ terminal.lines[Len(terminal.lines) - 1] = Line("Password: ********", <<>>)

\* the lines this step appends
Appended == {terminal'.lines[i] : i \in (Len(terminal.lines) + 1)..Len(terminal'.lines)}

\* C39: the history grows only by the input of a handleCommand call in
\* command mode; and from the submission of a password to the return to
\* command mode the history is unchanged and every line appended carries no
\* value or the username given before, never the password.
C39_PasswordNeverShown ==
    [][/\ terminal'.history # terminal.history =>
             /\ Mode = "command"
             /\ Called
             /\ terminal'.history = Append(terminal.history, terminal'.input)
       /\ Mode \in PasswordModes =>
             /\ terminal'.history = terminal.history
             /\ \A line \in Appended :
                   line.value \in {<<>>} \cup {terminal.inputState.tempData.username[1]}
       /\ (Called /\ Mode \in PasswordModes) =>
             /\ terminal'.awaiting.body.password = <<terminal'.input>>
             /\ Appended = {Line("Password: ********", <<>>)}]_vars

\* alice's password is on its way to the server; neither the history nor a
\* line holds it
C39_Witness ==
    /\ Mode = "login_password"
    /\ terminal.awaiting # NULL
    /\ terminal.awaiting.body = Credentials(<<alice>>, <<secret1>>)
    /\ LastLine = Line("Password: ********", <<>>)
    /\ \A i \in DOMAIN terminal.history : terminal.history[i] # secret1
    /\ \A i \in DOMAIN terminal.lines : terminal.lines[i].value # secret1

====
